---- MODULE Spec2Model ----
(***************************************************************************)
(* State-machine model of the nutricheF backend: the two rating stores and *)
(* the meal rating aggregate, the content scorer, the two recommendation   *)
(* services and the in-memory result cache.                                *)
(***************************************************************************)
EXTENDS Integers, Sequences, FiniteSets, TLC

\* Python None / SQL NULL
None == "None"

(***************************************************************************)
(* Input domains and bounds of the rating stores                           *)
(***************************************************************************)
UserIds == {1, 2}
MealIds == {1, 2}
\* rating values a caller passes; 6 is outside [1,5]
RatingValues == {1, 4}
InvalidRatingValues == {6}
Comments == {None, "tasty"}
\* number of rows a table's serial id may hand out
MaxRatingId == 2

VARIABLES
    recipe_ratings,   \* table recipe_ratings: set of rows
    meal_ratings,     \* table meal_ratings: set of rows
    meals,            \* table meals: meal id -> stored rating aggregate
    recipe_next_id,   \* serial of recipe_ratings.id
    meal_next_id,     \* serial of meal_ratings.id
    ratingRet,        \* the last repository call and what it returned
    rpc,              \* concurrent requests: position of each request
    rreq              \* concurrent requests: arguments and locals

ratingVars == <<recipe_ratings, meal_ratings, meals, recipe_next_id,
                meal_next_id, ratingRet, rpc, rreq>>

VARIABLES
    users,            \* table users: the ids stored
    next_user_id,     \* serial of users.id
    prefs,            \* table preferences: user id -> row
    model_file,       \* models/collaborative_filtering_model.pkl on disk
    model_loaded,     \* MLRecommendationService._model_loaded
    ml_model,         \* MLRecommendationService._ml_model
    cache,            \* cache_service._cache: entries [key, value, time]
    now,              \* datetime.now(), in seconds
    ml_instance,      \* identity of the object in _ml_model, 0 for None
    model_loads,      \* CollaborativeFilteringModel.load calls that returned
    recCall,          \* the last get_recommendations call and its outcome
    cpc,              \* concurrent callers of the cached wrapper: position
    creq              \* concurrent callers: arguments and locals

recVars == <<users, next_user_id, prefs, model_file, model_loaded, ml_model,
             ml_instance, model_loads, cache, now, recCall, cpc, creq>>

VARIABLES
    lpc,              \* concurrent first users of a lazy model: position
    lloc,             \* concurrent first users: what they hold and return
    ai_file,          \* models/recipe_model.pkl and its companions on disk
    ai_service,       \* ai_recipe_service._ai_service: instance id, 0 = None
    ai_created,       \* AIRecipeService instances constructed so far
    ai_trained,       \* the instances whose is_trained is True
    ai_loads          \* AIRecipeService._load_model calls that returned True

lazyVars == <<lpc, lloc, ai_file, ai_service, ai_created, ai_trained,
              ai_loads>>

VARIABLES
    cf_file,          \* models/interactions_sample.json: the interactions
    cf_model,         \* the CollaborativeFilteringModel trained on it
    cf_call           \* the last method call on it and what it returned

cfVars == <<cf_file, cf_model, cf_call>>

VARIABLES
    plan_req,         \* the meal-plan request being served
    plan_pc,          \* where the request is: idle, planning, done
    meals_by_category, \* meals_by_category: the eligible meals per slot
    weekly_plan,      \* weekly_plan: per day entry, the slots it holds
    used_meal_ids,    \* used_meal_ids: the meals placed in the slots
    plan_result       \* what the endpoint answered

planVars == <<plan_req, plan_pc, meals_by_category, weekly_plan,
              used_meal_ids, plan_result>>

\* the variables other than those of the rating stores and of the
\* recommendation services
VARIABLES
    profiles,         \* table users: id -> health fields and daily targets
    next_profile_id,  \* serial of users.id
    profile_call      \* the last UserService call and how it ended

profileVars == <<profiles, next_profile_id, profile_call>>

VARIABLES
    meal_rows,       \* table meals: id -> per-serving nutrition
    user_meal_rows,  \* table user_meals, in insertion order
    log_call         \* the last meal-log call and how it ended

logVars == <<meal_rows, user_meal_rows, log_call>>

VARIABLES
    search_call      \* the last ingredient search or training and its answer

searchVars == <<search_call>>

VARIABLES
    recipe_text,     \* table meals: id -> ingredients text
    matcher,         \* the global AIRecipeService instance
    snapshot,        \* recipe_model.pkl and recipe_vectorizer.pkl on disk
    index_call,      \* the last request to the recipe endpoints
    trainer,         \* a request thread inside train_model: where, locals
    finder           \* a request thread inside find_recipes_by_ingredients

indexVars == <<recipe_text, matcher, snapshot, index_call, trainer, finder>>

otherVars == <<lazyVars, cfVars, planVars, profileVars, logVars, searchVars,
               indexVars>>

vars == <<ratingVars, recVars, otherVars>>

\* threads that may be inside the cached wrapper at once
CacheProcs == {1, 2}

\* no get_recommendations call has been made yet
NoCall ==
    [svc |-> None, session |-> None, style |-> None, user_id |-> 0,
     category |-> None, limit |-> 0, use_ml |-> FALSE, outcome |-> None,
     result |-> << >>, computed |-> FALSE, time |-> 0, stored |-> FALSE,
     required |-> {}, file |-> None, raises |-> FALSE, earlier |-> {}]

NoCacheReq ==
    [session |-> None, use_ml |-> FALSE, key |-> None, outcome |-> None,
     result |-> << >>]

\* MLRecommendationService._ml_model = None
NoModel ==
    [present |-> FALSE, is_trained |-> FALSE, raises |-> FALSE,
     user_order |-> << >>, user_ratings |-> << >>, meal_popularity |-> << >>]

\* a fresh process over a database with no users: empty cache, no model
\* loaded, and one of the given model files on disk
InitRecommendation(files) ==
    /\ users = {}
    /\ next_user_id = 1
    /\ prefs = {}
    /\ model_file \in files
    /\ model_loaded = FALSE
    /\ ml_model = NoModel
    /\ ml_instance = 0
    /\ model_loads = 0
    /\ cache = {}
    /\ now = 0
    /\ recCall = NoCall
    /\ cpc = [p \in CacheProcs |-> "idle"]
    /\ creq = [p \in CacheProcs |-> NoCacheReq]

\* request threads that may use a lazily loaded model for the first time
LazyProcs == {1, 2}

\* fn: which lazy path the thread is in; inst: the object it loaded or
\* constructed; ret: the object it returned (0 for None)
NoLazyLoc == [fn |-> None, inst |-> 0, ret |-> 0]

\* states of the TF-IDF snapshot files
AiFiles == {"absent", "present", "corrupt"}

\* no AIRecipeService yet, and one of the given snapshot states on disk
InitLazy(files) ==
    /\ lpc = [p \in LazyProcs |-> "idle"]
    /\ lloc = [p \in LazyProcs |-> NoLazyLoc]
    /\ ai_file \in files
    /\ ai_service = 0
    /\ ai_created = 0
    /\ ai_trained = {}
    /\ ai_loads = 0

\* no method of a trained model has been called
NoCfCall ==
    [op |-> None, user_id |-> None, meal_id |-> 0, all_meal_ids |-> << >>,
     limit |-> 0, rating |-> 0, pairs |-> << >>]

\* no model has been trained in this process
InitCfIdle ==
    /\ cf_file = << >>
    /\ cf_model = NoModel
    /\ cf_call = NoCfCall

\* no meal-plan request has arrived
NoPlanReq ==
    [endpoint |-> None, catalogue |-> None,
     preference |-> [exists |-> FALSE, flags |-> {},
                     disliked_ingredients |-> << >>],
     days |-> 0, service_days |-> 0]

NoPlanResult == [status |-> None, success |-> FALSE, days |-> 0]

InitPlan ==
    /\ plan_req = NoPlanReq
    /\ plan_pc = "idle"
    /\ meals_by_category = << >>
    /\ weekly_plan = << >>
    /\ used_meal_ids = {}
    /\ plan_result = NoPlanResult

\* no UserService call has been made
NoProfileCall ==
    [op |-> None, user_id |-> 0, outcome |-> None, error |-> None]

\* table users is empty
InitProfiles ==
    /\ profiles = << >>
    /\ next_profile_id = 1
    /\ profile_call = NoProfileCall

\* no meal-log call has been made
NoLogCall == [op |-> None, meal_id |-> 0, outcome |-> None]

\* tables meals and user_meals are empty
InitLogIdle ==
    /\ meal_rows = << >>
    /\ user_meal_rows = << >>
    /\ log_call = NoLogCall

\* no ingredient search has been made
NoSearchCall ==
    [op |-> None, ingredients |-> << >>, limit |-> 0,
     min_ingredients_match |-> 0, trained_before |-> FALSE, file |-> None,
     outcome |-> None, results |-> {}]

InitSearchIdle == search_call = NoSearchCall

\* AIRecipeService.__init__, before the instance exists (exists FALSE);
\* an optional value is a set, {} for None
NoMatcher ==
    [exists |-> FALSE, is_trained |-> FALSE, vectorizer |-> {},
     meal_data |-> << >>]

NoSnapshot == [present |-> FALSE, vectorizer |-> {}, meal_data |-> << >>]

NoIndexCall == [op |-> None, meal_id |-> 0, status |-> None,
                trained |-> FALSE, retrained |-> FALSE]

\* no thread is inside train_model
NoTrainer == [pc |-> "idle", ids |-> << >>, rows |-> << >>, k |-> 0]

\* no thread is inside find_recipes_by_ingredients
NoFinder ==
    [pc |-> "idle", query |-> {}, attached |-> FALSE, list |-> << >>,
     k |-> 0, seen |-> << >>, outcome |-> None]

\* no recipe request has been made
InitIndexIdle ==
    /\ recipe_text = << >>
    /\ matcher = NoMatcher
    /\ snapshot = NoSnapshot
    /\ index_call = NoIndexCall
    /\ trainer = NoTrainer
    /\ finder = NoFinder

\* every group of otherVars but the named one is idle
InitOtherExcept(group) ==
    /\ IF group = "lazy" THEN TRUE ELSE InitLazy({"absent"})
    /\ IF group = "cf" THEN TRUE ELSE InitCfIdle
    /\ IF group = "plan" THEN TRUE ELSE InitPlan
    /\ IF group = "profile" THEN TRUE ELSE InitProfiles
    /\ IF group = "log" THEN TRUE ELSE InitLogIdle
    /\ IF group = "search" THEN TRUE ELSE InitSearchIdle
    /\ IF group = "index" THEN TRUE ELSE InitIndexIdle

InitOther == InitOtherExcept("none")

(***************************************************************************)
(* SQL aggregates.  A float average is kept as a fraction in lowest terms. *)
(***************************************************************************)
RECURSIVE GCD(_, _)
GCD(a, b) == IF b = 0 THEN a ELSE GCD(b, a % b)

Frac(n, d) == <<n \div GCD(n, d), d \div GCD(n, d)>>

ZeroFrac == <<0, 1>>

RECURSIVE SumRating(_)
SumRating(S) ==
    IF S = {} THEN 0
    ELSE LET x == CHOOSE y \in S : TRUE
         IN  x.rating + SumRating(S \ {x})

\* func.avg(rating): NULL over no rows
SqlAvg(S) == IF S = {} THEN None ELSE Frac(SumRating(S), Cardinality(S))

\* func.count(id)
SqlCount(S) == Cardinality(S)

RowsOfMeal(rows, m) == {x \in rows : x.meal_id = m}

RowsOfUserMeal(rows, u, m) == {x \in rows : x.user_id = u /\ x.meal_id = m}

RowsOfId(rows, id) == {x \in rows : x.id = id}

\* float(avg) if avg else 0.0 ; int(count) if count else 0
AggregateOf(S) ==
    [average_rating |-> IF SqlAvg(S) = None \/ SqlAvg(S)[1] = 0
                        THEN ZeroFrac ELSE SqlAvg(S),
     rating_count   |-> SqlCount(S)]

\* RecipeRatingRepository._update_meal_rating: the new meals table
\* the aggregate taken over every row, whatever its meal
update_meal_rating_unfiltered(mt, rows, m) ==
    IF m \in DOMAIN mt
    THEN [mt EXCEPT ![m] = AggregateOf(rows)]
    ELSE mt

update_meal_rating(mt, rows, m) ==
    IF m \in DOMAIN mt
    THEN [mt EXCEPT ![m] = AggregateOf(RowsOfMeal(rows, m))]
    ELSE mt

(***************************************************************************)
(* RecipeRatingRepository, one call at a time                              *)
(***************************************************************************)
\* the rows after the upsert branch of create_or_update
RecipeUpsertRows(rows, nid, u, m, r, c) ==
    LET ex == RowsOfUserMeal(rows, u, m)
    IN  IF ex # {}
        THEN LET e == CHOOSE x \in ex : TRUE
             IN  (rows \ {e}) \cup
                 {[e EXCEPT !.rating = r,
                            !.comment = IF c # None THEN c ELSE e.comment]}
        ELSE rows \cup {[id |-> nid, user_id |-> u, meal_id |-> m,
                         rating |-> r, comment |-> c]}

RecipeRatingRepository_create_or_update(u, m, r, c) ==
    LET ex   == RowsOfUserMeal(recipe_ratings, u, m)
        rows == RecipeUpsertRows(recipe_ratings, recipe_next_id, u, m, r, c)
    IN  /\ ex = {} => recipe_next_id <= MaxRatingId
        /\ recipe_ratings' = rows
        /\ recipe_next_id' = IF ex = {} THEN recipe_next_id + 1
                             ELSE recipe_next_id
        /\ meals' = update_meal_rating(meals, rows, m)
        /\ ratingRet' = [op |-> "recipe_create_or_update", user_id |-> u,
                         meal_id |-> m, rating |-> r, ret |-> "row"]
        /\ UNCHANGED <<meal_ratings, meal_next_id, rpc, rreq>>

RecipeRatingRepository_delete(id) ==
    LET found == RowsOfId(recipe_ratings, id)
    IN  IF found # {}
        THEN LET row  == CHOOSE x \in found : TRUE
                 rows == recipe_ratings \ {row}
             IN  /\ recipe_ratings' = rows
                 /\ meals' = update_meal_rating(meals, rows, row.meal_id)
                 /\ ratingRet' = [op |-> "recipe_delete",
                                  user_id |-> row.user_id,
                                  meal_id |-> row.meal_id,
                                  rating |-> row.rating, ret |-> "True"]
                 /\ UNCHANGED <<meal_ratings, recipe_next_id, meal_next_id,
                                rpc, rreq>>
        ELSE /\ ratingRet' = [op |-> "recipe_delete", user_id |-> None,
                              meal_id |-> None, rating |-> None,
                              ret |-> "False"]
             /\ UNCHANGED <<recipe_ratings, meal_ratings, meals,
                            recipe_next_id, meal_next_id, rpc, rreq>>

(***************************************************************************)
(* MealRatingRepository, one call at a time                                *)
(***************************************************************************)
MealRatingRepository_create_or_update_rating(u, m, r, review) ==
    IF r < 1 \/ r > 5
    THEN /\ ratingRet' = [op |-> "meal_create_or_update_rating",
                          user_id |-> u, meal_id |-> m, rating |-> r,
                          ret |-> "RatingValidationException"]
         /\ UNCHANGED <<recipe_ratings, meal_ratings, meals, recipe_next_id,
                        meal_next_id, rpc, rreq>>
    ELSE LET ex == RowsOfUserMeal(meal_ratings, u, m)
         IN  /\ ex = {} => meal_next_id <= MaxRatingId
             /\ \/ /\ ex # {}
                   /\ \E e \in ex :
                        meal_ratings' = (meal_ratings \ {e}) \cup
                            {[e EXCEPT !.rating = r, !.review = review]}
                   /\ UNCHANGED meal_next_id
                \/ /\ ex = {}
                   /\ meal_ratings' = meal_ratings \cup
                        {[id |-> meal_next_id, user_id |-> u, meal_id |-> m,
                          rating |-> r, review |-> review]}
                   /\ meal_next_id' = meal_next_id + 1
             /\ ratingRet' = [op |-> "meal_create_or_update_rating",
                              user_id |-> u, meal_id |-> m, rating |-> r,
                              ret |-> "row"]
             /\ UNCHANGED <<recipe_ratings, meals, recipe_next_id, rpc, rreq>>

MealRatingRepository_delete_rating(u, m) ==
    LET ex == RowsOfUserMeal(meal_ratings, u, m)
    IN  IF ex # {}
        THEN \E row \in ex :
               /\ meal_ratings' = meal_ratings \ {row}
               /\ ratingRet' = [op |-> "meal_delete_rating", user_id |-> u,
                                meal_id |-> m, rating |-> row.rating,
                                ret |-> "True"]
               /\ UNCHANGED <<recipe_ratings, meals, recipe_next_id,
                              meal_next_id, rpc, rreq>>
        ELSE /\ ratingRet' = [op |-> "meal_delete_rating", user_id |-> u,
                              meal_id |-> m, rating |-> None, ret |-> "False"]
             /\ UNCHANGED <<recipe_ratings, meal_ratings, meals,
                            recipe_next_id, meal_next_id, rpc, rreq>>

MealRatingRepository_delete(id) ==
    LET found == RowsOfId(meal_ratings, id)
    IN  IF found # {}
        THEN LET row == CHOOSE x \in found : TRUE
             IN  /\ meal_ratings' = meal_ratings \ {row}
                 /\ ratingRet' = [op |-> "meal_delete",
                                  user_id |-> row.user_id,
                                  meal_id |-> row.meal_id,
                                  rating |-> row.rating, ret |-> "True"]
                 /\ UNCHANGED <<recipe_ratings, meals, recipe_next_id,
                                meal_next_id, rpc, rreq>>
        ELSE /\ ratingRet' = [op |-> "meal_delete", user_id |-> None,
                              meal_id |-> None, rating |-> None,
                              ret |-> "False"]
             /\ UNCHANGED <<recipe_ratings, meal_ratings, meals,
                            recipe_next_id, meal_next_id, rpc, rreq>>

(***************************************************************************)
(* Specification of the rating stores under one-at-a-time calls            *)
(***************************************************************************)
RatingProcs == {1, 2}

NoRet == [op |-> None, user_id |-> None, meal_id |-> None, rating |-> None,
          ret |-> None]

NoReq == [repo |-> None, user_id |-> None, meal_id |-> None, rating |-> None,
          comment |-> None, existing |-> {}, agg |-> None]

InitRatingStores ==
    /\ recipe_ratings = {}
    /\ meal_ratings = {}
    /\ meals = [m \in MealIds |-> [average_rating |-> ZeroFrac,
                                   rating_count |-> 0]]
    /\ recipe_next_id = 1
    /\ meal_next_id = 1
    /\ ratingRet = NoRet
    /\ rpc = [p \in RatingProcs |-> "idle"]
    /\ rreq = [p \in RatingProcs |-> NoReq]

InitRating ==
    InitRatingStores /\ InitRecommendation({"absent"}) /\ InitOther

RecipeCreateOrUpdate(U, R, C) ==
    /\ \E u \in U, m \in MealIds, r \in R, c \in C :
          RecipeRatingRepository_create_or_update(u, m, r, c)
    /\ UNCHANGED <<recVars, otherVars>>

RecipeDelete ==
    /\ \E id \in 1..MaxRatingId : RecipeRatingRepository_delete(id)
    /\ UNCHANGED <<recVars, otherVars>>

MealCreateOrUpdateRating ==
    /\ \E u \in UserIds, m \in MealIds,
          r \in RatingValues \cup InvalidRatingValues, c \in Comments :
          MealRatingRepository_create_or_update_rating(u, m, r, c)
    /\ UNCHANGED <<recVars, otherVars>>

MealDeleteRating ==
    /\ \E u \in UserIds, m \in MealIds :
          MealRatingRepository_delete_rating(u, m)
    /\ UNCHANGED <<recVars, otherVars>>

MealDelete ==
    /\ \E id \in 1..MaxRatingId : MealRatingRepository_delete(id)
    /\ UNCHANGED <<recVars, otherVars>>

\* RecipeRatingRepository alone
NextRecipeSeq ==
    \/ RecipeCreateOrUpdate(UserIds, RatingValues, Comments)
    \/ RecipeDelete

SpecRecipeSeq == InitRating /\ [][NextRecipeSeq]_vars

\* both repositories over the same meals table
NextRatingSeq ==
    \/ RecipeCreateOrUpdate({1}, {4}, {None})
    \/ RecipeDelete
    \/ MealCreateOrUpdateRating
    \/ MealDeleteRating
    \/ MealDelete

SpecRatingSeq == InitRating /\ [][NextRatingSeq]_vars

(***************************************************************************)
(* Concurrent requests on the rating stores.  Every request has its own    *)
(* session; each statement sees what has been committed (the PostgreSQL    *)
(* default isolation), and every db.commit() publishes the request's work. *)
(***************************************************************************)
ConcMeals == {1}

\* a request thread enters create_or_update / create_or_update_rating
ConcStart(p) ==
    /\ rpc[p] = "idle"
    /\ \E repo \in {"recipe", "meal"}, u \in UserIds, m \in ConcMeals,
          r \in RatingValues :
         rreq' = [rreq EXCEPT ![p] = [repo |-> repo, user_id |-> u,
                      meal_id |-> m, rating |-> r, comment |-> None,
                      existing |-> {}, agg |-> None]]
    /\ rpc' = [rpc EXCEPT ![p] = "check"]
    /\ UNCHANGED <<recipe_ratings, meal_ratings, meals, recipe_next_id,
                   meal_next_id, ratingRet>>
    /\ UNCHANGED <<recVars, otherVars>>

ConcTable(p) == IF rreq[p].repo = "recipe" THEN recipe_ratings
                ELSE meal_ratings

\* existing = query.filter(user_id, meal_id).first()
ConcCheck(p) ==
    /\ rpc[p] = "check"
    /\ LET ex == RowsOfUserMeal(ConcTable(p), rreq[p].user_id,
                                rreq[p].meal_id)
       IN  \/ /\ ex = {}
              /\ rreq' = [rreq EXCEPT ![p].existing = {}]
           \/ \E e \in ex : rreq' = [rreq EXCEPT ![p].existing = {e.id}]
    /\ rpc' = [rpc EXCEPT ![p] = "write"]
    /\ UNCHANGED <<recipe_ratings, meal_ratings, meals, recipe_next_id,
                   meal_next_id, ratingRet>>
    /\ UNCHANGED <<recVars, otherVars>>

\* RecipeRatingRepository.create_or_update: the update or insert, committed.
\* unique_user_meal_rating rejects a second row of the pair.
ConcWriteRecipe(p) ==
    /\ rpc[p] = "write"
    /\ rreq[p].repo = "recipe"
    /\ LET q == rreq[p]
       IN  IF q.existing # {}
           THEN /\ recipe_ratings' =
                     {IF x.id \in q.existing
                      THEN [x EXCEPT !.rating = q.rating,
                                     !.comment = IF q.comment # None
                                                 THEN q.comment
                                                 ELSE x.comment]
                      ELSE x : x \in recipe_ratings}
                /\ rpc' = [rpc EXCEPT ![p] = "agg_read"]
                /\ UNCHANGED recipe_next_id
           ELSE /\ recipe_next_id <= MaxRatingId
                /\ recipe_next_id' = recipe_next_id + 1
                /\ IF RowsOfUserMeal(recipe_ratings, q.user_id,
                                     q.meal_id) # {}
                   THEN /\ rpc' = [rpc EXCEPT ![p] = "failed"]
                        /\ UNCHANGED recipe_ratings
                   ELSE /\ recipe_ratings' = recipe_ratings \cup
                             {[id |-> recipe_next_id, user_id |-> q.user_id,
                               meal_id |-> q.meal_id, rating |-> q.rating,
                               comment |-> q.comment]}
                        /\ rpc' = [rpc EXCEPT ![p] = "agg_read"]
    /\ UNCHANGED <<meal_ratings, meals, meal_next_id, ratingRet, rreq>>
    /\ UNCHANGED <<recVars, otherVars>>

\* MealRatingRepository.create_or_update_rating: the update or insert,
\* committed.  meal_ratings has no constraint on (user_id, meal_id).
ConcWriteMeal(p) ==
    /\ rpc[p] = "write"
    /\ rreq[p].repo = "meal"
    /\ LET q == rreq[p]
       IN  IF q.existing # {}
           THEN /\ meal_ratings' =
                     {IF x.id \in q.existing
                      THEN [x EXCEPT !.rating = q.rating,
                                     !.review = q.comment]
                      ELSE x : x \in meal_ratings}
                /\ UNCHANGED meal_next_id
           ELSE /\ meal_next_id <= MaxRatingId
                /\ meal_next_id' = meal_next_id + 1
                /\ meal_ratings' = meal_ratings \cup
                     {[id |-> meal_next_id, user_id |-> q.user_id,
                       meal_id |-> q.meal_id, rating |-> q.rating,
                       review |-> q.comment]}
    /\ rpc' = [rpc EXCEPT ![p] = "done"]
    /\ UNCHANGED <<recipe_ratings, meals, recipe_next_id, ratingRet, rreq>>
    /\ UNCHANGED <<recVars, otherVars>>

\* _update_meal_rating: SELECT avg(rating), count(id) WHERE meal_id
ConcAggRead(p) ==
    /\ rpc[p] = "agg_read"
    /\ rreq' = [rreq EXCEPT ![p].agg =
                   AggregateOf(RowsOfMeal(recipe_ratings, rreq[p].meal_id))]
    /\ rpc' = [rpc EXCEPT ![p] = "agg_write"]
    /\ UNCHANGED <<recipe_ratings, meal_ratings, meals, recipe_next_id,
                   meal_next_id, ratingRet>>
    /\ UNCHANGED <<recVars, otherVars>>

\* _update_meal_rating: meal.average_rating, meal.rating_count = ...; commit
ConcAggWrite(p) ==
    /\ rpc[p] = "agg_write"
    /\ meals' = [meals EXCEPT ![rreq[p].meal_id] = rreq[p].agg]
    /\ rpc' = [rpc EXCEPT ![p] = "done"]
    /\ UNCHANGED <<recipe_ratings, meal_ratings, recipe_next_id,
                   meal_next_id, ratingRet, rreq>>
    /\ UNCHANGED <<recVars, otherVars>>

NextRatingConc ==
    \E p \in RatingProcs :
        \/ ConcStart(p)
        \/ ConcCheck(p)
        \/ ConcWriteRecipe(p)
        \/ ConcWriteMeal(p)
        \/ ConcAggRead(p)
        \/ ConcAggWrite(p)

SpecRatingConc == InitRating /\ [][NextRatingConc]_vars

(***************************************************************************)
(* Text.  A string is a sequence of one-character strings; an absent or    *)
(* empty text column is the empty sequence (both are falsy in Python).     *)
(***************************************************************************)
NoText == << >>

\* str.lower() on one character
LowerChar(c) ==
    CASE c = "A" -> "a" [] c = "B" -> "b" [] c = "C" -> "c" [] c = "D" -> "d"
      [] c = "E" -> "e" [] c = "F" -> "f" [] c = "G" -> "g" [] c = "H" -> "h"
      [] c = "I" -> "i" [] c = "J" -> "j" [] c = "K" -> "k" [] c = "L" -> "l"
      [] c = "M" -> "m" [] c = "N" -> "n" [] c = "O" -> "o" [] c = "P" -> "p"
      [] c = "Q" -> "q" [] c = "R" -> "r" [] c = "S" -> "s" [] c = "T" -> "t"
      [] c = "U" -> "u" [] c = "V" -> "v" [] c = "W" -> "w" [] c = "X" -> "x"
      [] c = "Y" -> "y" [] c = "Z" -> "z"
      [] OTHER -> c

\* str.lower()
Lower(t) == [i \in 1..Len(t) |-> LowerChar(t[i])]

\* needle in hay
Contains(hay, needle) ==
    \E i \in 1..(Len(hay) - Len(needle) + 1) :
        SubSeq(hay, i, i + Len(needle) - 1) = needle

\* str.strip() of blanks
RECURSIVE Strip(_)
Strip(t) ==
    IF t = << >> THEN t
    ELSE IF Head(t) = " " THEN Strip(Tail(t))
    ELSE IF t[Len(t)] = " " THEN Strip(SubSeq(t, 1, Len(t) - 1))
    ELSE t

\* str.split(","): the sequence of the parts
RECURSIVE SplitComma(_, _)
SplitComma(t, cur) ==
    IF t = << >> THEN <<cur>>
    ELSE IF Head(t) = "," THEN <<cur>> \o SplitComma(Tail(t), << >>)
    ELSE SplitComma(Tail(t), Append(cur, Head(t)))

(***************************************************************************)
(* The catalogue, the user profiles and the consumption history the        *)
(* recommendation services read                                            *)
(***************************************************************************)
DietaryFlags == {"vegetarian", "vegan", "gluten_free", "dairy_free",
                 "nut_free", "halal", "kosher"}

\* rows of table meals in the order the queries return them
MealRows == <<
    [id |-> 1, name |-> <<"T","o","f","u"," ","B","o","w","l">>,
     description |-> NoText, category |-> "lunch",
     calories |-> 400, protein |-> 50, flags |-> DietaryFlags],
    [id |-> 2, name |-> <<"B","e","e","f"," ","S","t","e","w">>,
     description |-> <<"a","s","i","a","n">>, category |-> "dinner",
     calories |-> 600, protein |-> 30,
     flags |-> {"gluten_free", "dairy_free", "nut_free"}],
    [id |-> 3, name |-> <<"E","g","g"," ","T","o","a","s","t">>,
     description |-> NoText, category |-> "lunch",
     calories |-> 300, protein |-> 20,
     flags |-> {"vegetarian", "nut_free", "halal", "kosher"}] >>

\* the users row of a user id, when stored
UserRow(u) ==
    [id |-> u, daily_calorie_target |-> 2000, daily_protein_target |-> 125,
     goal |-> IF u = 1 THEN "weight_loss" ELSE "maintenance"]

\* UserMealRepository.get_user_meals: user 1 ate meal 3 on an earlier day
UserMeals(u) == IF u = 1 THEN <<[meal_id |-> 3, category |-> "lunch"]>>
                ELSE << >>

\* UserMealRepository.get_daily_nutrition for today: nothing eaten yet
TodayNutrition(u) == [total_calories |-> 0, total_protein |-> 0]

\* preferences rows a user may store; exists = FALSE is "no row"
NoPreference ==
    [exists |-> FALSE, flags |-> {}, preferred_cuisine |-> NoText,
     favorite_ingredients |-> NoText]

PreferenceChoices == {
    [exists |-> TRUE, flags |-> {}, preferred_cuisine |-> NoText,
     favorite_ingredients |-> NoText],
    [exists |-> TRUE, flags |-> {"vegan"},
     preferred_cuisine |-> <<"A","s","i","a","n">>,
     favorite_ingredients |-> <<"t","o","f","u",","," ","E","g","g">>] }

(***************************************************************************)
(* RecommendationService._calculate_meal_score.  Scores are integers in    *)
(* thousandths (round(score, 3)); intermediate values in millionths.       *)
(***************************************************************************)
Max2(a, b) == IF a > b THEN a ELSE b

Min2(a, b) == IF a < b THEN a ELSE b

Abs(a) == IF a < 0 THEN 0 - a ELSE a

\* round(x, 3) of a value in millionths, in thousandths
Round3(micro) == (micro + 500) \div 1000

HardFilterViolated(meal, preference) ==
    preference.exists /\ \E f \in preference.flags : f \notin meal.flags

\* 2. nutritional fit, in millionths
NutritionalFit(meal, user, today) ==
    IF user.daily_calorie_target # 0
    THEN LET remaining_calories ==
                 Max2(0, user.daily_calorie_target - today.total_calories)
             remaining_protein ==
                 Max2(0, user.daily_protein_target - today.total_protein)
             calorie_fit ==
                 Max2(0, Min2(1000000, 1000000 -
                     (Abs(10 * meal.calories - 3 * remaining_calories)
                        * 100000) \div remaining_calories))
             protein_fit ==
                 Min2(1000000,
                      (meal.protein * 10 * 1000000) \div
                          (4 * remaining_protein))
         IN  (IF remaining_calories > 0
              THEN (calorie_fit * 3) \div 10 ELSE 0)
             + (IF user.goal \in {"muscle_gain", "weight_loss"}
                   /\ remaining_protein > 0
                THEN (protein_fit * 2) \div 10 ELSE 0)
    ELSE 0

\* keyword in meal.name.lower() or in meal.description.lower()
KeywordInMeal(word, meal) ==
    \/ Contains(Lower(meal.name), word)
    \/ meal.description # NoText /\ Contains(Lower(meal.description), word)

\* 3. preference similarity, in millionths
PreferenceSimilarity(meal, preference) ==
    IF preference.exists
    THEN (IF preference.preferred_cuisine # NoText
             /\ KeywordInMeal(Lower(preference.preferred_cuisine), meal)
          THEN 200000 ELSE 0)
         + (IF preference.favorite_ingredients # NoText
            THEN LET parts == SplitComma(preference.favorite_ingredients,
                                         << >>)
                     favorite_ingredients ==
                         [i \in 1..Len(parts) |-> Lower(Strip(parts[i]))]
                 IN  100000 * Cardinality(
                         {i \in 1..Len(favorite_ingredients) :
                             KeywordInMeal(favorite_ingredients[i], meal)})
            ELSE 0)
    ELSE 0

\* 4. historical preference, in millionths
HistoricalPreference(meal, user_meals) ==
    IF user_meals # << >>
    THEN (IF \E i \in 1..Len(user_meals) :
                 user_meals[i].category = meal.category
          THEN 200000 ELSE 0)
         + (IF \E i \in 1..Len(user_meals) : user_meals[i].meal_id = meal.id
            THEN 300000 ELSE 0)
    ELSE 0

\* 5. nutritional density bonus: protein / calories > 0.1
DensityBonus(meal) ==
    IF meal.calories > 0 /\ 10 * meal.protein > meal.calories
    THEN 100000 ELSE 0

calculate_meal_score(meal, user, preference, user_meals, today) ==
    IF HardFilterViolated(meal, preference) THEN 0
    ELSE Round3(NutritionalFit(meal, user, today)
                + PreferenceSimilarity(meal, preference)
                + HistoricalPreference(meal, user_meals)
                + DensityBonus(meal))

(***************************************************************************)
(* list.sort(key=..., reverse=True): stable, greatest first                *)
(***************************************************************************)
\* a sort key is a fraction <<n, d>> with d > 0
FracGT(a, b) == a[1] * b[2] > b[1] * a[2]

\* key[i] is the sort key of seq[i]
SortDesc(seq, key) ==
    LET n == Len(seq)
        Rank(i) == 1 + Cardinality({j \in 1..n :
                        \/ FracGT(key[j], key[i])
                        \/ ~FracGT(key[i], key[j]) /\ j < i})
    IN  [r \in 1..n |-> seq[CHOOSE i \in 1..n : Rank(i) = r]]

\* the sort keys of a sequence of <<item, score>> pairs or of scored items
PairKeys(seq) == [i \in 1..Len(seq) |-> <<seq[i][2], 1>>]

ItemKeys(seq) == [i \in 1..Len(seq) |-> <<seq[i].sort_key, 1>>]

\* seq[:n]
Take(seq, n) == SubSeq(seq, 1, Min2(Len(seq), Max2(n, 0)))

\* [x for x in seq if Keep(x)]
RECURSIVE FilterIdx(_, _, _)
FilterIdx(seq, keep, i) ==
    IF i > Len(seq) THEN << >>
    ELSE (IF i \in keep THEN <<seq[i]>> ELSE << >>)
         \o FilterIdx(seq, keep, i + 1)

(***************************************************************************)
(* CollaborativeFilteringModel (scripts/train_ml_model.py) as loaded from  *)
(* a snapshot.  Ratings are integers 1..5, predictions and popularity are  *)
(* in thousandths, a similarity is a fraction <<n, d>>.                    *)
(***************************************************************************)
\* find_similar_users(user_id, k=20) in predict_rating
SimilarUsersK == 20

\* meal_popularity.get(meal_id, 3.0)
NeutralPrediction == 3000

\* a trained snapshot: users "1", "7", "8"; popularity = avg * ln(count + 1)
TrainedModel ==
    [present |-> TRUE, is_trained |-> TRUE, raises |-> FALSE,
     user_order |-> <<"1", "7", "8">>,
     user_ratings |-> [u \in {"1", "7", "8"} |->
                        CASE u = "1" -> (3 :> 5)
                          [] u = "7" -> (3 :> 3) @@ (1 :> 4)
                          [] u = "8" -> (2 :> 1)],
     meal_popularity |-> (1 :> 2773) @@ (2 :> 693) @@ (3 :> 4394)]

\* the snapshot a model file of each kind unpickles to
SnapshotOf(file) ==
    CASE file = "trained"   -> TrainedModel
      [] file = "untrained" -> [TrainedModel EXCEPT !.is_trained = FALSE]
      [] file = "faulty"    -> [TrainedModel EXCEPT !.raises = TRUE]
      [] OTHER              -> NoModel

ISqrt(n) == CHOOSE k \in 0..n : k * k <= n /\ (k + 1) * (k + 1) > n

RECURSIVE SumOver(_, _)
SumOver(f, S) ==
    IF S = {} THEN 0
    ELSE LET x == CHOOSE y \in S : TRUE IN f[x] + SumOver(f, S \ {x})

\* cosine_similarity: <<dot product, mag1 * mag2>>, <<0, 1>> for 0.0
cosine_similarity(r1, r2) ==
    LET common == DOMAIN r1 \cap DOMAIN r2
        dot  == SumOver([m \in common |-> r1[m] * r2[m]], common)
        mag1 == ISqrt(SumOver([m \in DOMAIN r1 |-> r1[m] * r1[m]], DOMAIN r1))
        mag2 == ISqrt(SumOver([m \in DOMAIN r2 |-> r2[m] * r2[m]], DOMAIN r2))
    IN  IF common = {} THEN <<0, 1>>
        ELSE IF mag1 = 0 \/ mag2 = 0 THEN <<0, 1>>
        ELSE <<dot, mag1 * mag2>>

\* find_similar_users: [(other, similarity)] with similarity > 0, best first
find_similar_users(model, user_id, k) ==
    IF user_id \notin DOMAIN model.user_ratings THEN << >>
    ELSE LET order == model.user_order
             sims  == [i \in 1..Len(order) |->
                         [user |-> order[i],
                          sim  |-> cosine_similarity(
                                       model.user_ratings[user_id],
                                       model.user_ratings[order[i]])]]
             kept  == FilterIdx(sims,
                         {i \in 1..Len(order) :
                             order[i] # user_id /\ sims[i].sim[1] > 0}, 1)
         IN  Take(SortDesc(kept, [i \in 1..Len(kept) |-> kept[i].sim]), k)

RECURSIVE ProdDen(_, _)
ProdDen(seq, i) ==
    IF i > Len(seq) THEN 1 ELSE seq[i].sim[2] * ProdDen(seq, i + 1)

Popularity(model, meal_id) ==
    IF meal_id \in DOMAIN model.meal_popularity
    THEN model.meal_popularity[meal_id] ELSE NeutralPrediction

\* predict_rating, in thousandths
\* the weighted average over the similar users who rated the meal
predict_from_similar(model, meal_id, similar) ==
    LET D       == ProdDen(similar, 1)
        raters  == {i \in 1..Len(similar) :
                      meal_id \in DOMAIN model.user_ratings[similar[i].user]}
        weight  == [i \in raters |->
                      similar[i].sim[1] * (D \div similar[i].sim[2])]
        rated   == [i \in raters |->
                      model.user_ratings[similar[i].user][meal_id]
                        * weight[i]]
        total_weight == SumOver(weight, raters)
        weighted_sum == SumOver(rated, raters)
    IN  IF similar = << >> THEN Popularity(model, meal_id)
        ELSE IF total_weight > 0
        THEN Max2(1000, Min2(5000, (1000 * weighted_sum) \div total_weight))
        ELSE Popularity(model, meal_id)

predict_rating(model, user_id, meal_id) ==
    IF user_id \in DOMAIN model.user_ratings
       /\ meal_id \in DOMAIN model.user_ratings[user_id]
    THEN 1000 * model.user_ratings[user_id][meal_id]
    ELSE predict_from_similar(model, meal_id,
             find_similar_users(model, user_id, SimilarUsersK))

\* CollaborativeFilteringModel.get_recommendations: <<meal_id, score>> pairs
\* predictions.sort(key=lambda x: x[1], reverse=True)[:limit]
TopPairs(pairs, limit) == Take(SortDesc(pairs, PairKeys(pairs)), limit)

\* get_recommendations without the exclusion of the meals the user rated
model_get_recommendations_unfiltered(model, user_id, all_meal_ids, limit) ==
    TopPairs([i \in 1..Len(all_meal_ids) |->
                <<all_meal_ids[i],
                  predict_rating(model, user_id, all_meal_ids[i])>>], limit)

model_get_recommendations(model, user_id, all_meal_ids, limit) ==
    LET user_rated == IF user_id \in DOMAIN model.user_ratings
                      THEN DOMAIN model.user_ratings[user_id] ELSE {}
        candidate_meals ==
            FilterIdx(all_meal_ids,
                {i \in 1..Len(all_meal_ids) :
                    all_meal_ids[i] \notin user_rated}, 1)
    IN  IF candidate_meals = << >>
        THEN TopPairs([i \in 1..Len(all_meal_ids) |->
                         <<all_meal_ids[i],
                           Popularity(model, all_meal_ids[i])>>], limit)
        ELSE TopPairs([i \in 1..Len(candidate_meals) |->
                         <<candidate_meals[i],
                           predict_rating(model, user_id,
                                          candidate_meals[i])>>], limit)

(***************************************************************************)
(* MLRecommendationService._load_ml_model                                  *)
(***************************************************************************)
ModelFiles == {"absent", "corrupt", "untrained", "trained", "faulty"}

\* _load_ml_model that tries the file again while no model is held
load_ml_model_retry(loaded, model, file) ==
    IF loaded /\ model.present THEN [loaded |-> TRUE, model |-> model]
    ELSE IF file = "absent" THEN [loaded |-> TRUE, model |-> NoModel]
    ELSE IF file = "corrupt" THEN [loaded |-> TRUE, model |-> NoModel]
    ELSE [loaded |-> TRUE, model |-> SnapshotOf(file)]

\* the class attributes after the call; the call returns .model
load_ml_model(loaded, model, file) ==
    IF loaded THEN [loaded |-> TRUE, model |-> model]
    ELSE IF file = "absent" THEN [loaded |-> TRUE, model |-> NoModel]
    ELSE IF file = "corrupt" THEN [loaded |-> TRUE, model |-> NoModel]
    ELSE [loaded |-> TRUE, model |-> SnapshotOf(file)]

(***************************************************************************)
(* The two get_recommendations                                             *)
(***************************************************************************)
\* MealRepository.get_all(db, skip=0, limit=n)
get_all(limit) == Take(MealRows, limit)

\* MealRepository.get_by_category(db, category) with its default limit 100
get_by_category(category) ==
    Take(FilterIdx(MealRows,
             {i \in 1..Len(MealRows) : MealRows[i].category = category}, 1),
         100)

\* lines 104-125: score every meal, sort, keep the first limit
top_scored(all_meals, user, preference, limit) ==
    LET scored_meals ==
            [i \in 1..Len(all_meals) |->
               [meal |-> all_meals[i].id,
                sort_key |-> calculate_meal_score(all_meals[i], user,
                                 preference, UserMeals(user.id),
                                 TodayNutrition(user.id))]]
        top == Take(SortDesc(scored_meals, ItemKeys(scored_meals)), limit)
    IN  [i \in 1..Len(top) |->
           [meal |-> top[i].meal, score |-> top[i].sort_key]]

\* RecommendationService.get_recommendations, lines 85-125
content_get_recommendations(stored, preference, user_id, category, limit) ==
    IF user_id \notin stored
    THEN [outcome |-> "UserNotFound", result |-> << >>]
    ELSE LET all1 == get_all(1000)
         IN  [outcome |-> "ok",
              result  |-> top_scored(
                  IF category # None
                  THEN FilterIdx(all1, {i \in 1..Len(all1) :
                                          all1[i].category = category}, 1)
                  ELSE all1,
                  UserRow(user_id), preference, limit)]

\* normalised ML score of a raw prediction, in millionths
NormalizeMl(raw) == (Max2(1000, Min2(5000, raw)) - 1000) * 250

\* the blend is applied whether or not there is an ML score
HybridScoreAlwaysBlend(ml_score, content_score) ==
    (6 * ml_score + 4 * (1000 * content_score)) \div 10

\* lines 190-193: hybrid score in millionths of an ML score in millionths
\* and a content score in thousandths
HybridScore(ml_score, content_score) ==
    IF ml_score > 0
    THEN (6 * ml_score + 4 * (1000 * content_score)) \div 10
    ELSE 1000 * content_score

\* MLRecommendationService.get_recommendations, lines 125-217: the outcome,
\* the returned list and the class attributes afterwards
\* lines 141-159: the model's <<meal_id, score>> pairs, none when the model
\* is not used, absent, untrained, or its call raises
ml_predictions(use_ml, model, user_id, meal_ids, limit) ==
    IF use_ml /\ model.present /\ model.is_trained /\ ~model.raises
    THEN model_get_recommendations(model, ToString(user_id), meal_ids,
                                   limit * 3)
    ELSE << >>

\* lines 179-185: the normalised ML score of a meal, 0 without a prediction
ml_score_of(ml_recommendations, meal_id) ==
    LET found == {j \in 1..Len(ml_recommendations) :
                     ml_recommendations[j][1] = meal_id}
    IN  IF found = {} THEN 0
        ELSE NormalizeMl(ml_recommendations[CHOOSE j \in found : TRUE][2])

\* lines 167-195: one scored entry per meal, in catalogue order
score_meals(all_meals, user, preference, ml_recommendations) ==
    [i \in 1..Len(all_meals) |->
        [meal |-> all_meals[i].id,
         ml_score |-> ml_score_of(ml_recommendations, all_meals[i].id),
         content_score |-> calculate_meal_score(all_meals[i], user,
                               preference, UserMeals(user.id),
                               TodayNutrition(user.id))]]

\* lines 174-176 and 190-195: meals with content score 0 are skipped, the
\* others get their hybrid score
keep_scored(entries) ==
    LET kept == FilterIdx(entries, {i \in 1..Len(entries) :
                                      entries[i].content_score # 0}, 1)
    IN  [k \in 1..Len(kept) |->
           [meal |-> kept[k].meal,
            sort_key |-> HybridScore(kept[k].ml_score, kept[k].content_score),
            ml_score |-> kept[k].ml_score,
            content_score |-> kept[k].content_score]]

\* lines 197-217: sort by hybrid score, keep the first limit, round
top_recommendations(scored_meals, limit) ==
    LET top == Take(SortDesc(scored_meals, ItemKeys(scored_meals)), limit)
    IN  [i \in 1..Len(top) |->
           [meal |-> top[i].meal,
            score |-> Round3(top[i].sort_key),
            ml_score |-> IF top[i].ml_score > 0
                         THEN <<Round3(top[i].ml_score)>> ELSE << >>,
            content_score |-> top[i].content_score]]

\* MLRecommendationService.get_recommendations, lines 125-217: the outcome,
\* the returned list and the class attributes afterwards
ml_get_recommendations(stored, preference, loaded, model, file, user_id, category, limit, use_ml) ==
    IF user_id \notin stored
    THEN [outcome |-> "UserNotFound", result |-> << >>,
          loaded |-> loaded, model |-> model]
    ELSE LET all_meals == IF category # None THEN get_by_category(category)
                          ELSE get_all(50000)
             ld == IF use_ml THEN load_ml_model(loaded, model, file)
                   ELSE [loaded |-> loaded, model |-> model]
         IN  IF all_meals = << >>
             THEN [outcome |-> "ok", result |-> << >>,
                   loaded |-> loaded, model |-> model]
             ELSE [outcome |-> "ok",
                   result |-> top_recommendations(
                       keep_scored(score_meals(all_meals, UserRow(user_id),
                           preference,
                           ml_predictions(use_ml, ld.model, user_id,
                               [i \in 1..Len(all_meals) |-> all_meals[i].id],
                               limit))),
                       limit),
                   loaded |-> ld.loaded, model |-> ld.model]

(***************************************************************************)
(* cache_service: get_cache_key and the cached wrapper                     *)
(***************************************************************************)
\* @cached(ttl_seconds=1800)
TtlSeconds == 1800

\* json.dumps(..., default=str) of one argument
JsonNull == <<"null", "">>

JsonInt(n) == <<"int", ToString(n)>>

JsonBool(b) == <<"bool", IF b THEN "true" ELSE "false">>

JsonStr(t) == IF t = None THEN JsonNull ELSE <<"str", t>>

\* default=str on a Session: its repr, which names the object's address
JsonSession(addr) == <<"obj", addr>>

\* the ways a caller writes the call
CallStyles == {"positional", "keyword"}

\* func.__name__ and get_cache_key(*args, **kwargs); sort_keys makes the
\* order of kwargs irrelevant
CacheKey(style, session, user_id, category, limit, use_ml) ==
    IF style = "positional"
    THEN [name |-> "get_recommendations",
          args |-> <<JsonSession(session), JsonInt(user_id),
                     JsonStr(category), JsonInt(limit), JsonBool(use_ml)>>,
          kwargs |-> {}]
    ELSE [name |-> "get_recommendations",
          args |-> <<JsonSession(session), JsonInt(user_id)>>,
          kwargs |-> {<<"category", JsonStr(category)>>,
                      <<"limit", JsonInt(limit)>>,
                      <<"use_ml", JsonBool(use_ml)>>}]

\* cache_key in _cache and age.total_seconds() < ttl_seconds
FreshEntries(c, key, t) ==
    {e \in c : e.key = key /\ t - e.time < TtlSeconds}

\* _cache[cache_key] = (result, datetime.now())
CacheStore(c, key, value, t) ==
    {e \in c : e.key # key} \cup {[key |-> key, value |-> value, time |-> t]}

(***************************************************************************)
(* Operations on users, preferences, the model file and the clock          *)
(***************************************************************************)
RecUserIds == {1}

\* addresses a Session object may live at; every request has its own Session
SessionAddrs == {"0x7f10", "0x7f20"}

\* seconds the clock advances in one step, and how many steps
TickSeconds == TtlSeconds \div 2

MaxTicks == 2

\* PreferenceRepository.get_by_user_id
get_by_user_id(rows, u) ==
    IF \E x \in rows : x.user_id = u
    THEN (CHOOSE x \in rows : x.user_id = u).row
    ELSE NoPreference

\* the dietary flags the stored preference of a user requires
RequiredFlags(u) == get_by_user_id(prefs, u).flags

\* the four values of a call are those of a cache key, whatever the session
\* and the way the arguments were written
SameFour(key, u, category, limit, use_ml) ==
    \E style \in CallStyles, session \in SessionAddrs :
        key = CacheKey(style, session, u, category, limit, use_ml)

UserRepository_create ==
    /\ next_user_id \in RecUserIds
    /\ users' = users \cup {next_user_id}
    /\ next_user_id' = next_user_id + 1
    /\ UNCHANGED <<prefs, model_file, model_loaded, ml_model, cache, now,
                   recCall, cpc, creq,
                   ml_instance, model_loads>>
    /\ UNCHANGED <<ratingVars, otherVars>>

\* the preferences row goes with the user (cascade="all, delete-orphan")
UserRepository_delete(u) ==
    /\ u \in users
    /\ users' = users \ {u}
    /\ prefs' = {x \in prefs : x.user_id # u}
    /\ UNCHANGED <<next_user_id, model_file, model_loaded, ml_model, cache,
                   now, recCall, cpc, creq,
                   ml_instance, model_loads>>
    /\ UNCHANGED <<ratingVars, otherVars>>

PreferenceRepository_create_or_update(u, p) ==
    /\ u \in users
    /\ get_by_user_id(prefs, u) # p
    /\ prefs' = {x \in prefs : x.user_id # u}
                   \cup {[user_id |-> u, row |-> p]}
    /\ UNCHANGED <<users, next_user_id, model_file, model_loaded, ml_model,
                   cache, now, recCall, cpc, creq,
                   ml_instance, model_loads>>
    /\ UNCHANGED <<ratingVars, otherVars>>

\* scripts/train_ml_model.py main(): trains and writes the model file
train_ml_model_main ==
    /\ model_file # "trained"
    /\ model_file' = "trained"
    /\ UNCHANGED <<users, next_user_id, prefs, model_loaded, ml_model, cache,
                   now, recCall, cpc, creq,
                   ml_instance, model_loads>>
    /\ UNCHANGED <<ratingVars, otherVars>>

Tick ==
    /\ now < MaxTicks * TickSeconds
    /\ now' = now + TickSeconds
    /\ UNCHANGED <<users, next_user_id, prefs, model_file, model_loaded,
                   ml_model, cache, recCall, cpc, creq,
                   ml_instance, model_loads>>
    /\ UNCHANGED <<ratingVars, otherVars>>

\* r is what a get_recommendations call left behind: when it loaded the
\* model for the first time and load returned, a new object is in _ml_model
LoadedNow(r) == r.loaded /\ ~model_loaded /\ r.model.present

InstanceAfter(r) == IF LoadedNow(r) THEN model_loads + 1 ELSE ml_instance

LoadsAfter(r) == IF LoadedNow(r) THEN model_loads + 1 ELSE model_loads

\* what is recorded of a call: its arguments, its outcome, and what held
\* when it was made
CallRecord(svc, style, session, u, category, limit, use_ml, outcome, result, computed) ==
    [svc |-> svc, session |-> session, style |-> style, user_id |-> u,
     category |-> category, limit |-> limit, use_ml |-> use_ml,
     outcome |-> outcome, result |-> result, computed |-> computed,
     time |-> now, stored |-> u \in users, required |-> RequiredFlags(u),
     file |-> model_file,
     raises |-> load_ml_model(model_loaded, ml_model, model_file).model.raises,
     earlier |-> IF svc = "ml"
                 THEN {e.value : e \in {x \in cache :
                          /\ SameFour(x.key, u, category, limit, use_ml)
                          /\ now - x.time < TtlSeconds}}
                 ELSE {}]

\* RecommendationService.get_recommendations(db, user_id, category, limit)
RecommendationService_get_recommendations(session, u, category, limit) ==
    /\ \E r \in {content_get_recommendations(users, get_by_user_id(prefs, u),
                                             u, category, limit)} :
          recCall' = CallRecord("content", "positional", session, u,
                                category, limit, FALSE, r.outcome, r.result,
                                TRUE)
    /\ UNCHANGED <<users, next_user_id, prefs, model_file, model_loaded,
                   ml_model, cache, now, cpc, creq,
                   ml_instance, model_loads>>
    /\ UNCHANGED <<ratingVars, otherVars>>

\* MLRecommendationService.get_recommendations through the cached wrapper,
\* one call at a time
MLRecommendationService_get_recommendations(style, session, u, category, limit, use_ml) ==
    \E key \in {CacheKey(style, session, u, category, limit, use_ml)} :
        IF FreshEntries(cache, key, now) # {}
        THEN /\ \E e \in FreshEntries(cache, key, now) :
                  recCall' = CallRecord("ml", style, session, u, category,
                                        limit, use_ml, "ok", e.value, FALSE)
             /\ UNCHANGED <<users, next_user_id, prefs, model_file,
                            model_loaded, ml_model, cache, now, cpc, creq,
                   ml_instance, model_loads>>
             /\ UNCHANGED <<ratingVars, otherVars>>
        ELSE /\ \E r \in {ml_get_recommendations(users,
                               get_by_user_id(prefs, u), model_loaded,
                               ml_model, model_file, u, category, limit,
                               use_ml)} :
                  /\ recCall' = CallRecord("ml", style, session, u,
                                    category, limit, use_ml, r.outcome,
                                    r.result, TRUE)
                  /\ model_loaded' = r.loaded
                  /\ ml_model' = r.model
                  /\ ml_instance' = InstanceAfter(r)
                  /\ model_loads' = LoadsAfter(r)
                  /\ cache' = IF r.outcome = "ok"
                              THEN CacheStore(cache, key, r.result, now)
                              ELSE cache
             /\ UNCHANGED <<users, next_user_id, prefs, model_file, now,
                            cpc, creq>>
             /\ UNCHANGED <<ratingVars, otherVars>>

(***************************************************************************)
(* Specification of the two recommendation services, one call at a time,   *)
(* while users come and go and preferences change                          *)
(***************************************************************************)
ContentLimits == {1, 3}

MlLimits == {2}

CreateUser == UserRepository_create

DeleteUser == \E u \in RecUserIds : UserRepository_delete(u)

UpdatePreference ==
    \E u \in RecUserIds, p \in PreferenceChoices :
        PreferenceRepository_create_or_update(u, p)

ContentGet(Sessions, U, Limits) ==
    \E session \in Sessions, u \in U, limit \in Limits :
        RecommendationService_get_recommendations(session, u, None, limit)

\* Calls: the <<call style, session>> pairs the callers use
MLGet(Calls, U, Limits, UseMl) ==
    \E call \in Calls, u \in U, limit \in Limits, use_ml \in UseMl :
        MLRecommendationService_get_recommendations(call[1], call[2], u,
                                                    None, limit, use_ml)

InitRec == InitRatingStores /\ InitRecommendation(ModelFiles) /\ InitOther

NextRec ==
    \/ CreateUser
    \/ DeleteUser
    \/ UpdatePreference
    \/ train_ml_model_main
    \/ Tick
    \/ ContentGet({"0x7f10"}, RecUserIds, ContentLimits)
    \/ MLGet({<<"positional", "0x7f10">>}, RecUserIds, MlLimits, BOOLEAN)

SpecRec == InitRec /\ [][NextRec]_vars

(***************************************************************************)
(* Specification of the result cache: one stored user, calls through       *)
(* different sessions and call styles, and the clock                       *)
(***************************************************************************)
InitCache ==
    /\ InitRatingStores
    /\ users = {1}
    /\ next_user_id = 2
    /\ prefs = {}
    /\ model_file \in {"absent", "trained"}
    /\ model_loaded = FALSE
    /\ ml_model = NoModel
    /\ ml_instance = 0
    /\ model_loads = 0
    /\ cache = {}
    /\ now = 0
    /\ recCall = NoCall
    /\ cpc = [p \in CacheProcs |-> "idle"]
    /\ creq = [p \in CacheProcs |-> NoCacheReq]
    /\ InitOther

\* the test script's way of calling, the same by position, and the same
\* by position through another request's session
CacheCalls == {<<"keyword", "0x7f10">>, <<"positional", "0x7f10">>,
               <<"positional", "0x7f20">>}

NextCache ==
    \/ Tick
    \/ MLGet(CacheCalls, {1}, MlLimits, {TRUE})

SpecCache == InitCache /\ [][NextCache]_vars

(***************************************************************************)
(* Concurrent callers of the cached wrapper (cache_service.cached): request*)
(* threads of the server run it without any lock                           *)
(***************************************************************************)
\* cache_key = ...; if cache_key in _cache and fresh: return cached_value
WrapLookup(p) ==
    /\ cpc[p] = "idle"
    /\ \E session \in SessionAddrs, use_ml \in {TRUE} :
         \E key \in {CacheKey("positional", session, 1, None, 2, use_ml)} :
          \E hit \in {FreshEntries(cache, key, now)} :
             \/ /\ hit # {}
                /\ \E e \in hit :
                     creq' = [creq EXCEPT ![p] =
                                [session |-> session, use_ml |-> use_ml,
                                 key |-> key, outcome |-> "ok",
                                 result |-> e.value]]
                /\ cpc' = [cpc EXCEPT ![p] = "done"]
             \/ /\ hit = {}
                /\ creq' = [creq EXCEPT ![p] =
                              [session |-> session, use_ml |-> use_ml,
                               key |-> key, outcome |-> None,
                               result |-> << >>]]
                /\ cpc' = [cpc EXCEPT ![p] = "call"]
    /\ UNCHANGED <<users, next_user_id, prefs, model_file, model_loaded,
                   ml_model, cache, now, recCall,
                   ml_instance, model_loads>>
    /\ UNCHANGED <<ratingVars, otherVars>>

\* result = func(*args, **kwargs)
WrapCall(p) ==
    /\ cpc[p] = "call"
    /\ \E r \in {ml_get_recommendations(users, get_by_user_id(prefs, 1),
                      model_loaded, ml_model, model_file, 1, None, 2,
                      creq[p].use_ml)} :
           /\ creq' = [creq EXCEPT ![p].outcome = r.outcome,
                                   ![p].result = r.result]
           /\ model_loaded' = r.loaded
           /\ ml_model' = r.model
           /\ ml_instance' = InstanceAfter(r)
           /\ model_loads' = LoadsAfter(r)
           /\ cpc' = [cpc EXCEPT ![p] = IF r.outcome = "ok" THEN "store"
                                        ELSE "raised"]
    /\ UNCHANGED <<users, next_user_id, prefs, model_file, cache, now,
                   recCall>>
    /\ UNCHANGED <<ratingVars, otherVars>>

\* _cache[cache_key] = (result, datetime.now()); return result
WrapStore(p) ==
    /\ cpc[p] = "store"
    /\ cache' = CacheStore(cache, creq[p].key, creq[p].result, now)
    /\ cpc' = [cpc EXCEPT ![p] = "done"]
    /\ UNCHANGED <<users, next_user_id, prefs, model_file, model_loaded,
                   ml_model, now, recCall, creq,
                   ml_instance, model_loads>>
    /\ UNCHANGED <<ratingVars, otherVars>>

\* the thread takes its next request
WrapReturn(p) ==
    /\ cpc[p] = "done"
    /\ cpc' = [cpc EXCEPT ![p] = "idle"]
    /\ creq' = [creq EXCEPT ![p] = NoCacheReq]
    /\ UNCHANGED <<users, next_user_id, prefs, model_file, model_loaded,
                   ml_model, cache, now, recCall,
                   ml_instance, model_loads>>
    /\ UNCHANGED <<ratingVars, otherVars>>

NextCacheConc ==
    \/ Tick
    \/ \E p \in CacheProcs :
        \/ WrapLookup(p)
        \/ WrapCall(p)
        \/ WrapStore(p)
        \/ WrapReturn(p)

SpecCacheConc == InitCache /\ [][NextCacheConc]_vars

(***************************************************************************)
(* Specification of the hybrid scoring: two stored users, one known to the *)
(* collaborative model and one not, asking for the whole catalogue         *)
(***************************************************************************)
HybridUserIds == {1, 2}

HybridLimits == {3}

InitHybrid ==
    /\ InitRatingStores
    /\ users = HybridUserIds
    /\ next_user_id = 3
    /\ prefs = {}
    /\ model_file \in ModelFiles
    /\ model_loaded = FALSE
    /\ ml_model = NoModel
    /\ ml_instance = 0
    /\ model_loads = 0
    /\ cache = {}
    /\ now = 0
    /\ recCall = NoCall
    /\ cpc = [p \in CacheProcs |-> "idle"]
    /\ creq = [p \in CacheProcs |-> NoCacheReq]
    /\ InitOther

NextHybrid ==
    \/ \E p \in PreferenceChoices : PreferenceRepository_create_or_update(1, p)
    \/ train_ml_model_main
    \/ MLGet({<<"positional", "0x7f10">>}, HybridUserIds, HybridLimits, BOOLEAN)

SpecHybrid == InitHybrid /\ [][NextHybrid]_vars

(***************************************************************************)
(* First use of the two lazily loaded models by concurrent request         *)
(* threads.  Neither _load_ml_model nor get_ai_service takes a lock, so    *)
(* each read and each assignment of the shared attribute is a step.        *)
(***************************************************************************)
\* what the lazy steps leave alone
lazyFrame == <<ratingVars, users, next_user_id, prefs, model_file, cache,
               now, recCall, cpc, creq, ai_file, cfVars, planVars,
               profileVars, logVars, searchVars, indexVars>>

mlLazyVars == <<model_loaded, ml_model, ml_instance, model_loads>>

aiLazyVars == <<ai_service, ai_created, ai_trained, ai_loads>>

\* the thread is at step pc of its call, and moves to pc2 with its locals
\* changed to loc
LazyStep(p, pc2, loc) ==
    /\ lpc' = [lpc EXCEPT ![p] = pc2]
    /\ lloc' = [lloc EXCEPT ![p] = loc]

\* a request thread enters _load_ml_model ("ml") or get_ai_service ("ai")
LazyCall(p, fn) ==
    /\ lpc[p] = "idle"
    /\ lloc[p].fn = None
    /\ LazyStep(p, fn \o "_check", [lloc[p] EXCEPT !.fn = fn])
    /\ UNCHANGED <<lazyFrame, mlLazyVars, aiLazyVars>>

\* lines 59-60: if cls._model_loaded: return cls._ml_model
MlLoadCheck(p) ==
    /\ lpc[p] = "ml_check"
    /\ IF model_loaded
       THEN LazyStep(p, "done", [lloc[p] EXCEPT !.ret = ml_instance])
       ELSE LazyStep(p, "ml_exists", lloc[p])
    /\ UNCHANGED <<lazyFrame, mlLazyVars, aiLazyVars>>

\* lines 62-65: no file: set the flag and return None
MlLoadExists(p) ==
    /\ lpc[p] = "ml_exists"
    /\ IF model_file = "absent"
       THEN /\ model_loaded' = TRUE
            /\ LazyStep(p, "done", [lloc[p] EXCEPT !.ret = 0])
       ELSE /\ model_loaded' = model_loaded
            /\ LazyStep(p, "ml_read", lloc[p])
    /\ UNCHANGED <<lazyFrame, ml_model, ml_instance, model_loads, aiLazyVars>>

\* line 74, right-hand side: CollaborativeFilteringModel.load reads the
\* file into a new object; lines 78-81 when unpickling raises
MlLoadRead(p) ==
    /\ lpc[p] = "ml_read"
    /\ IF model_file = "corrupt"
       THEN /\ model_loaded' = TRUE
            /\ model_loads' = model_loads
            /\ LazyStep(p, "done", [lloc[p] EXCEPT !.ret = 0])
       ELSE /\ model_loaded' = model_loaded
            /\ model_loads' = model_loads + 1
            /\ LazyStep(p, "ml_assign",
                        [lloc[p] EXCEPT !.inst = model_loads + 1])
    /\ UNCHANGED <<lazyFrame, ml_model, ml_instance, aiLazyVars>>

\* line 74, the assignment to cls._ml_model
MlLoadAssign(p) ==
    /\ lpc[p] = "ml_assign"
    /\ ml_instance' = lloc[p].inst
    /\ ml_model' = SnapshotOf(model_file)
    /\ LazyStep(p, "ml_flag", lloc[p])
    /\ UNCHANGED <<lazyFrame, model_loaded, model_loads, aiLazyVars>>

\* line 75: cls._model_loaded = True
MlLoadFlag(p) ==
    /\ lpc[p] = "ml_flag"
    /\ model_loaded' = TRUE
    /\ LazyStep(p, "ml_return", lloc[p])
    /\ UNCHANGED <<lazyFrame, ml_model, ml_instance, model_loads, aiLazyVars>>

\* line 77: return cls._ml_model, read again from the class
MlLoadReturn(p) ==
    /\ lpc[p] = "ml_return"
    /\ LazyStep(p, "done", [lloc[p] EXCEPT !.ret = ml_instance])
    /\ UNCHANGED <<lazyFrame, mlLazyVars, aiLazyVars>>

\* ai_recipe_service.py line 275: if _ai_service is None
AiCheck(p) ==
    /\ lpc[p] = "ai_check"
    /\ IF ai_service = 0
       THEN LazyStep(p, "ai_create", lloc[p])
       ELSE LazyStep(p, "ai_return", lloc[p])
    /\ UNCHANGED <<lazyFrame, mlLazyVars, aiLazyVars>>

\* line 276: _ai_service = AIRecipeService(), an untrained matcher
AiCreate(p) ==
    /\ lpc[p] = "ai_create"
    /\ ai_created' = ai_created + 1
    /\ ai_service' = ai_created + 1
    /\ LazyStep(p, "ai_load", [lloc[p] EXCEPT !.inst = ai_created + 1])
    /\ UNCHANGED <<lazyFrame, mlLazyVars, ai_trained, ai_loads>>

\* AIRecipeService._load_model on instance inst, lines 226-252: False when
\* the snapshot is absent or unreadable, else the three pickles are loaded
\* and is_trained is set
ai_load_model(trained, loads, file, inst) ==
    IF file = "present"
    THEN [trained |-> trained \cup {inst}, loads |-> loads + 1, ok |-> TRUE]
    ELSE [trained |-> trained, loads |-> loads, ok |-> FALSE]

\* line 278: _ai_service._load_model(), on the object the global names now
AiLoad(p) ==
    /\ lpc[p] = "ai_load"
    /\ \E r \in {ai_load_model(ai_trained, ai_loads, ai_file, ai_service)} :
           /\ ai_trained' = r.trained
           /\ ai_loads' = r.loads
    /\ LazyStep(p, "ai_return", lloc[p])
    /\ UNCHANGED <<lazyFrame, mlLazyVars, ai_service, ai_created>>

\* line 279: return _ai_service
AiReturn(p) ==
    /\ lpc[p] = "ai_return"
    /\ LazyStep(p, "done", [lloc[p] EXCEPT !.ret = ai_service])
    /\ UNCHANGED <<lazyFrame, mlLazyVars, aiLazyVars>>

\* a fresh process, any state of the two snapshots on disk
InitLazyLoad ==
    /\ InitRatingStores
    /\ InitRecommendation(ModelFiles)
    /\ InitLazy(AiFiles)
    /\ InitOtherExcept("lazy")

NextLazy ==
    \E p \in LazyProcs :
        \/ \E fn \in {"ml", "ai"} : LazyCall(p, fn)
        \/ MlLoadCheck(p)
        \/ MlLoadExists(p)
        \/ MlLoadRead(p)
        \/ MlLoadAssign(p)
        \/ MlLoadFlag(p)
        \/ MlLoadReturn(p)
        \/ AiCheck(p)
        \/ AiCreate(p)
        \/ AiLoad(p)
        \/ AiReturn(p)

SpecLazy == InitLazyLoad /\ [][NextLazy]_vars

(***************************************************************************)
(* CollaborativeFilteringModel trained on an interactions file             *)
(* (scripts/train_ml_model.py), and its two query methods applied to it.   *)
(***************************************************************************)
\* an interactions file holds at most this many records
MaxInteractions == 2

CfUsers == {"1", "7"}

CfMeals == {1, 2}

CfRatings == {1, 5}

\* one record of interactions_sample.json
Interactions == [user_id : CfUsers, meal_id : CfMeals, rating : CfRatings]

\* the file TrainedModel was trained on
SampleInteractions ==
    <<[user_id |-> "1", meal_id |-> 3, rating |-> 5],
      [user_id |-> "7", meal_id |-> 3, rating |-> 3],
      [user_id |-> "7", meal_id |-> 1, rating |-> 4],
      [user_id |-> "8", meal_id |-> 2, rating |-> 1]>>

InteractionFiles ==
    UNION {[1..n -> Interactions] : n \in 0..MaxInteractions}
        \cup {SampleInteractions}

\* 1000 * math.log(n), truncated
Ln1000(n) ==
    CASE n = 1 -> 0
      [] n = 2 -> 693
      [] n = 3 -> 1098
      [] n = 4 -> 1386
      [] n = 5 -> 1609
      [] OTHER -> 1791

\* load_interactions: the keys of user_ratings in insertion order
RECURSIVE UserOrder(_, _)
UserOrder(ix, i) ==
    IF i = 0 THEN << >>
    ELSE LET before == UserOrder(ix, i - 1)
         IN  IF \E j \in 1..(i - 1) : ix[j].user_id = ix[i].user_id
             THEN before ELSE Append(before, ix[i].user_id)

\* load_interactions: a later record of the same user and meal overwrites
LastRating(ix, u, m) ==
    ix[CHOOSE i \in 1..Len(ix) :
          /\ ix[i].user_id = u /\ ix[i].meal_id = m
          /\ \A j \in (i + 1)..Len(ix) :
                 ~(ix[j].user_id = u /\ ix[j].meal_id = m)].rating

\* load_interactions, lines 46-52: user_ratings[user_id][meal_id] = rating
load_interactions(ix) ==
    [u \in {ix[i].user_id : i \in 1..Len(ix)} |->
       [m \in {ix[i].meal_id : i \in {j \in 1..Len(ix) : ix[j].user_id = u}}
          |-> LastRating(ix, u, m)]]

\* calculate_popularity_scores: avg_rating * log(num_ratings + 1), in
\* thousandths, for every meal with a rating
calculate_popularity_scores(user_ratings) ==
    [m \in UNION {DOMAIN user_ratings[u] : u \in DOMAIN user_ratings} |->
       LET raters == {u \in DOMAIN user_ratings : m \in DOMAIN user_ratings[u]}
           total  == SumOver([u \in raters |-> user_ratings[u][m]], raters)
           n      == Cardinality(raters)
       IN  (total * Ln1000(n + 1)) \div n]

\* train, lines 173-186
train(ix) ==
    [present |-> TRUE, is_trained |-> TRUE, raises |-> FALSE,
     user_order |-> UserOrder(ix, Len(ix)),
     user_ratings |-> load_interactions(ix),
     meal_popularity |-> calculate_popularity_scores(load_interactions(ix))]

\* the users and meals the methods are asked about: known and unknown ones
QueryUsers == {"1", "7", "9"}

QueryMeals == {1, 2, 4}

CandidateLists == {<<1, 2>>, <<2, 1>>, <<1>>, <<1, 2, 4>>}

QueryLimits == {1, 2}

\* a model trained on one of the interaction files
InitCf ==
    /\ InitRatingStores
    /\ InitRecommendation({"absent"})
    /\ InitOtherExcept("cf")
    /\ cf_file \in InteractionFiles
    /\ cf_model = train(cf_file)
    /\ cf_call = NoCfCall

\* CollaborativeFilteringModel.predict_rating(user_id, meal_id)
CfPredictRating(user_id, meal_id) ==
    /\ cf_call' = [NoCfCall EXCEPT
                     !.op = "predict_rating",
                     !.user_id = user_id,
                     !.meal_id = meal_id,
                     !.rating = predict_rating(cf_model, user_id, meal_id)]
    /\ UNCHANGED <<ratingVars, recVars, lazyVars, planVars, profileVars,
                   logVars, searchVars, indexVars,
                   cf_file, cf_model>>

\* CollaborativeFilteringModel.get_recommendations(user_id, ids, limit)
CfGetRecommendations(user_id, all_meal_ids, limit) ==
    /\ cf_call' = [NoCfCall EXCEPT
                     !.op = "get_recommendations",
                     !.user_id = user_id,
                     !.all_meal_ids = all_meal_ids,
                     !.limit = limit,
                     !.pairs = model_get_recommendations(
                                   cf_model, user_id, all_meal_ids, limit)]
    /\ UNCHANGED <<ratingVars, recVars, lazyVars, planVars, profileVars,
                   logVars, searchVars, indexVars,
                   cf_file, cf_model>>

NextCf ==
    \/ \E u \in QueryUsers, m \in QueryMeals : CfPredictRating(u, m)
    \/ \E u \in QueryUsers, ids \in CandidateLists, limit \in QueryLimits :
           CfGetRecommendations(u, ids, limit)

SpecCf == InitCf /\ [][NextCf]_vars

(***************************************************************************)
(* MealPlannerService (services/meal_planner_service.py) behind its two    *)
(* endpoints (controllers/meal_planner_controller.py).  random.choice is a *)
(* choice among the candidates; one day of the plan is one step.           *)
(***************************************************************************)
\* MEAL_CALORIE_DISTRIBUTION, in its order, the ratios in percent
MealTypes == <<"breakfast", "lunch", "dinner", "snack">>

CalorieRatioPct(meal_type) ==
    CASE meal_type = "breakfast" -> 25
      [] meal_type = "lunch"     -> 35
      [] meal_type = "dinner"    -> 30
      [] meal_type = "snack"     -> 10

\* len(eligible_meals) < 10
MinEligibleMeals == 10

\* request.days > 14, min(days, 14)
MaxPlanDays == 14

\* user.daily_calorie_target or 2000
DefaultDailyCalories == 2000

\* scored_meals[:min(3, len(scored_meals))]
TopChoices == 3

\* meals[:5]
FallbackMeals == 5

\* the rows of table meals in the catalogue
CatalogueSize == 12

\* how the categories are spread over the catalogue
PlannerCatalogues == {"balanced", "no_lunch", "one_category", "unknown"}

CategoryOf(kind, i) ==
    CASE kind = "balanced" -> MealTypes[((i - 1) % 4) + 1]
      [] kind = "no_lunch" ->
             <<"breakfast", "dinner", "snack">>[((i - 1) % 3) + 1]
      [] kind = "one_category" -> "Dinner"
      [] kind = "unknown" -> IF i % 2 = 1 THEN None ELSE "dessert"

\* meals 9 and 10 are not kosher, meal 11 is only vegetarian, meal 12
\* contains tofu, meal 3 has no ingredients text
IngredientsOf(i) ==
    CASE i = 3  -> NoText
      [] i = 12 -> <<"S","a","l","t",","," ","T","O","F","U">>
      [] i % 2 = 1 -> <<"r","i","c","e",","," ","b","e","a","n","s">>
      [] OTHER -> <<"O","a","t","s",","," ","d","a","t","e","s">>

PlannerMeals(kind) ==
    [i \in 1..CatalogueSize |->
       [id |-> i, category |-> CategoryOf(kind, i),
        calories |-> 100 * i,
        flags |-> CASE i \in {9, 10} -> DietaryFlags \ {"kosher"}
                    [] i = 11 -> {"vegetarian"}
                    [] OTHER -> DietaryFlags,
        ingredients |-> IngredientsOf(i)]]

\* no preferences row, a vegan who dislikes tofu and beet, a kosher eater
PlannerPreferences == {
    [exists |-> FALSE, flags |-> {}, disliked_ingredients |-> NoText],
    [exists |-> TRUE, flags |-> {"vegan"},
     disliked_ingredients |-> <<"T","o","f","u"," ",",","b","e","e","t">>],
    [exists |-> TRUE, flags |-> {"kosher"},
     disliked_ingredients |-> NoText] }

\* lines 159-164: a disliked ingredient is in the lowered ingredients text
DislikedIn(meal, preference) ==
    /\ preference.disliked_ingredients # NoText
    /\ meal.ingredients # NoText
    /\ \E part \in {Lower(Strip(x)) :
                      x \in {SplitComma(preference.disliked_ingredients,
                                        << >>)[i] :
                               i \in 1..Len(SplitComma(
                                   preference.disliked_ingredients, << >>))}} :
           Contains(Lower(meal.ingredients), part)

\* _filter_by_preferences without the disliked ingredients check
filter_by_flags_only(meal_list, preference) ==
    IF ~preference.exists THEN meal_list
    ELSE FilterIdx(meal_list,
             {i \in 1..Len(meal_list) :
                 \A f \in preference.flags : f \in meal_list[i].flags}, 1)

\* _filter_by_preferences
filter_by_preferences(meal_list, preference) ==
    IF ~preference.exists THEN meal_list
    ELSE FilterIdx(meal_list,
             {i \in 1..Len(meal_list) :
                 /\ \A f \in preference.flags : f \in meal_list[i].flags
                 /\ ~DislikedIn(meal_list[i], preference)}, 1)

\* (meal.category or 'lunch').lower(), and lunch for an unknown category
CategoryKey(meal) ==
    CASE meal.category = None -> "lunch"
      [] meal.category = "Dinner" -> "dinner"
      [] meal.category \in {"breakfast", "lunch", "dinner", "snack"} ->
             meal.category
      [] OTHER -> "lunch"

\* lines 180-186: the meals appended to categories[cat]
Bucket(meal_list, cat) ==
    FilterIdx(meal_list,
        {i \in 1..Len(meal_list) : CategoryKey(meal_list[i]) = cat}, 1)

\* _categorize_meals without the fallback for an empty category
categorize_meals_no_fallback(meal_list) ==
    [cat \in {MealTypes[i] : i \in 1..Len(MealTypes)} |->
       Bucket(meal_list, cat)]

\* _categorize_meals: an empty category gets the lunch meals, or the first
\* five meals when there is no lunch meal
categorize_meals(meal_list) ==
    [cat \in {MealTypes[i] : i \in 1..Len(MealTypes)} |->
       IF Bucket(meal_list, cat) # << >> THEN Bucket(meal_list, cat)
       ELSE IF Bucket(meal_list, "lunch") # << >>
            THEN Bucket(meal_list, "lunch")
       ELSE Take(meal_list, FallbackMeals)]

\* the candidates of _select_best_meal, best score first; the score is
\* abs(calories - target) / (target + 1) with target = daily * pct / 100
RankedForSlot(candidate_meals, daily_calories, pct) ==
    SortDesc(candidate_meals,
             [i \in 1..Len(candidate_meals) |->
                <<0 - Abs(candidate_meals[i].calories
                            - (daily_calories * pct) \div 100),
                  (daily_calories * pct) \div 100 + 1>>])

\* _select_best_meal without the preference for unused meals
select_best_meal_any(meal_list, daily_calories, pct, used) ==
    IF meal_list = << >> THEN {0}
    ELSE LET top_meals ==
                 Take(RankedForSlot(meal_list, daily_calories, pct),
                      TopChoices)
         IN  {top_meals[i].id : i \in 1..Len(top_meals)}

\* _select_best_meal: the ids random.choice may return, {0} for None
select_best_meal(meal_list, daily_calories, pct, used) ==
    IF meal_list = << >> THEN {0}
    ELSE LET unused_meals ==
                 FilterIdx(meal_list,
                     {i \in 1..Len(meal_list) : meal_list[i].id \notin used}, 1)
             top_meals ==
                 Take(RankedForSlot(
                          IF unused_meals # << >> THEN unused_meals
                          ELSE meal_list, daily_calories, pct), TopChoices)
         IN  {top_meals[i].id : i \in 1..Len(top_meals)}

\* days: int = 7
DefaultPlanDays == 7

\* the days a client may ask for: below, at and above the limits, and the
\* default
PlanDays == {0 - 1, 0, 1, DefaultPlanDays, MaxPlanDays, MaxPlanDays + 1}

\* generate_weekly_plan up to the loop over the days, lines 62-96
PlanService(endpoint, kind, preference, days, service_days) ==
    /\ plan_req' = [endpoint |-> endpoint, catalogue |-> kind,
                    preference |-> preference, days |-> days,
                    service_days |-> service_days]
    /\ weekly_plan' = << >>
    /\ used_meal_ids' = {}
    /\ \E eligible_meals \in
             {filter_by_preferences(PlannerMeals(kind), preference)} :
           IF Len(eligible_meals) < MinEligibleMeals
           THEN /\ plan_pc' = "done"
                /\ meals_by_category' = << >>
                /\ plan_result' = [status |-> "200", success |-> FALSE,
                                   days |-> 0]
           ELSE /\ plan_pc' = "planning"
                /\ meals_by_category' = categorize_meals(eligible_meals)
                /\ plan_result' = NoPlanResult
    /\ UNCHANGED <<ratingVars, recVars, lazyVars, cfVars, profileVars,
                   logVars, searchVars, indexVars>>

\* POST /api/meal-planner/users/{user_id}/generate for a stored user; the
\* HTTPException(400) raised inside the try is caught by except Exception
generate_meal_plan(kind, preference, days) ==
    /\ plan_pc = "idle"
    /\ IF days < 1 \/ days > MaxPlanDays
       THEN /\ plan_req' = [endpoint |-> "generate", catalogue |-> kind,
                            preference |-> preference, days |-> days,
                            service_days |-> 0]
            /\ plan_pc' = "done"
            /\ plan_result' = [status |-> "500", success |-> FALSE,
                               days |-> 0]
            /\ UNCHANGED <<meals_by_category, weekly_plan, used_meal_ids>>
            /\ UNCHANGED <<ratingVars, recVars, lazyVars, cfVars,
                           profileVars, logVars, searchVars, indexVars>>
       ELSE PlanService("generate", kind, preference, days, days)

\* GET /api/meal-planner/users/{user_id}/quick-plan for a stored user
get_quick_plan(kind, preference, days) ==
    /\ plan_pc = "idle"
    /\ PlanService("quick-plan", kind, preference, days,
                   Min2(days, MaxPlanDays))

\* the keys of day_meals after four picks, a pick of 0 (None) leaving its
\* slot out
DaySlots(picks) == {MealTypes[i] : i \in {j \in 1..4 : picks[j] # 0}}

\* the day entry as far as the plan's shape goes
DayShape(picks, used) == [slots |-> DaySlots(picks)]

\* the day entry with day_meals[meal_type]['id'] of the four slots, and
\* used_meal_ids as it was when the day began
DayMeals(picks, used) ==
    [slots |-> DaySlots(picks), meals |-> picks, used_before |-> used]

\* the day entry appended to weekly_plan, with or without the meals
DayEntry(with_meals, picks, used) ==
    IF with_meals THEN DayMeals(picks, used) ELSE DayShape(picks, used)

\* one pass of the loop of lines 97-113: _plan_single_day
plan_day(with_meals) ==
    /\ plan_pc = "planning"
    /\ Len(weekly_plan) < plan_req.service_days
    /\ \E cats \in {meals_by_category} :
       \E b \in select_best_meal(cats["breakfast"], DefaultDailyCalories,
                                 CalorieRatioPct("breakfast"),
                                 used_meal_ids) :
       \E l \in select_best_meal(cats["lunch"], DefaultDailyCalories,
                                 CalorieRatioPct("lunch"),
                                 used_meal_ids \cup ({b} \ {0})) :
       \E d \in select_best_meal(cats["dinner"], DefaultDailyCalories,
                                 CalorieRatioPct("dinner"),
                                 used_meal_ids \cup ({b, l} \ {0})) :
       \E n \in select_best_meal(cats["snack"], DefaultDailyCalories,
                                 CalorieRatioPct("snack"),
                                 used_meal_ids \cup ({b, l, d} \ {0})) :
           /\ used_meal_ids' = used_meal_ids \cup ({b, l, d, n} \ {0})
           /\ weekly_plan' =
                  Append(weekly_plan,
                         DayEntry(with_meals, <<b, l, d, n>>, used_meal_ids))
    /\ UNCHANGED <<plan_req, plan_pc, meals_by_category, plan_result>>
    /\ UNCHANGED <<ratingVars, recVars, lazyVars, cfVars, profileVars,
                   logVars, searchVars, indexVars>>

plan_single_day == plan_day(FALSE)

\* lines 115-133: the totals and the returned dictionary;
\* len(used_meal_ids) / (days * 4) raises ZeroDivisionError for days = 0
plan_return ==
    /\ plan_pc = "planning"
    /\ Len(weekly_plan) >= plan_req.service_days
    /\ plan_pc' = "done"
    /\ plan_result' =
           IF plan_req.service_days = 0
           THEN [status |-> "500", success |-> FALSE, days |-> 0]
           ELSE [status |-> "200", success |-> TRUE,
                 days |-> plan_req.service_days]
    /\ UNCHANGED <<plan_req, meals_by_category, weekly_plan,
                   used_meal_ids>>
    /\ UNCHANGED <<ratingVars, recVars, lazyVars, cfVars, profileVars,
                   logVars, searchVars, indexVars>>

InitPlanner ==
    /\ InitRatingStores
    /\ InitRecommendation({"absent"})
    /\ InitOtherExcept("plan")
    /\ InitPlan

NextPlanner ==
    \/ \E kind \in PlannerCatalogues, preference \in PlannerPreferences,
          days \in PlanDays : generate_meal_plan(kind, preference, days)
    \/ \E kind \in PlannerCatalogues, preference \in PlannerPreferences,
          days \in PlanDays : get_quick_plan(kind, preference, days)
    \/ plan_single_day
    \/ plan_return

SpecPlanner == InitPlanner /\ [][NextPlanner]_vars

(***************************************************************************)
(* The planner for plans of two days, the meals of every slot kept in the  *)
(* day entries                                                             *)
(***************************************************************************)
ShortPlanDays == {2}

plan_single_day_meals == plan_day(TRUE)

NextShortPlan ==
    \/ \E kind \in PlannerCatalogues, preference \in PlannerPreferences,
          days \in ShortPlanDays : generate_meal_plan(kind, preference, days)
    \/ plan_single_day_meals
    \/ plan_return

SpecShortPlan == InitPlanner /\ [][NextShortPlan]_vars

(***************************************************************************)
(* UserService.create_user / update_user (services/user_service.py) as     *)
(* called by the user endpoints, over NutritionService's target formulas.  *)
(* An optional value is a set: {} for None or a missing key, {v} for v.    *)
(* The BMR and the macro targets are in hundredths (of a kcal, of a        *)
(* gram), the TDEE and the calorie target in 1/100000 kcal, so that every  *)
(* product is exact.                                                       *)
(***************************************************************************)
HealthFields == {"weight", "height", "age", "gender"}

TargetFields == {"daily_calorie_target", "daily_protein_target",
                 "daily_carb_target", "daily_fat_target"}

\* user.dict(exclude_none=True) of a UserCreate or UserUpdate body: a key
\* is missing ({}) or carries a value
UserData ==
    [weight : {{}, {0}, {70}, {0 - 5}},
     height : {{}, {0}, {175}},
     age : {{}, {0}, {30}},
     gender : {{}, {""}, {"male"}},
     activity_level : {{}, {"moderately_active"}},
     goal : {{}, {"weight_loss"}, {"maintenance"}}]

\* the value inside an optional
ValueOf(opt) == CHOOSE v \in opt : TRUE

\* bool(x) of an optional number
TruthyNumber(opt) == opt # {} /\ opt # {0}

\* bool(x) of an optional string
TruthyString(opt) == opt # {} /\ opt # {""}

\* all([weight, height, age]): the gender left out of the test
all_but_gender(weight, height, age, gender) ==
    TruthyNumber(weight) /\ TruthyNumber(height) /\ TruthyNumber(age)

\* all([weight, height, age, gender])
all_health_fields(weight, height, age, gender) ==
    /\ TruthyNumber(weight) /\ TruthyNumber(height) /\ TruthyNumber(age)
    /\ TruthyString(gender)

\* InvalidNutritionDataException.__init__(self, message, nutrition_data=None)
\* called with nargs positional arguments: more than two is a TypeError
\* of the call itself
ExceptionRaisedWith(nargs) ==
    IF nargs <= 2 THEN "InvalidNutritionDataException" ELSE "TypeError"

\* raise InvalidNutritionDataException("Weight must be positive", "weight",
\* weight): message, field name and value
BmrError == ExceptionRaisedWith(3)

\* calculate_bmr reaches one of its raise statements
BmrRaises(weight, height, age) ==
    ValueOf(weight) <= 0 \/ ValueOf(height) <= 0 \/ ValueOf(age) <= 0

\* calculate_bmr, in hundredths; str(None).lower() is neither male nor
\* female
calculate_bmr(weight, height, age, gender) ==
    1000 * ValueOf(weight) + 625 * ValueOf(height) - 500 * ValueOf(age)
      + (IF gender = {"male"} THEN 500
         ELSE IF gender = {"female"} THEN 0 - 16100
         ELSE 0 - 7800)

\* the multiplier of a sedentary user, whatever the level
ActivityMultiplierSedentary(activity_level) == 1200

\* ACTIVITY_MULTIPLIERS.get(activity_level, 1.2), in thousandths
ActivityMultiplier(activity_level) ==
    CASE activity_level = "lightly_active"    -> 1375
      [] activity_level = "moderately_active" -> 1550
      [] activity_level = "very_active"       -> 1725
      [] activity_level = "extremely_active"  -> 1900
      [] OTHER -> 1200

\* bmr * multiplier: hundredths times thousandths
calculate_tdee(bmr, activity_level) ==
    bmr * ActivityMultiplier(activity_level)

\* GOAL_ADJUSTMENTS.get(goal, 0), in kcal
GoalAdjustment(goal) ==
    CASE goal = "weight_loss" -> 0 - 500
      [] goal = "weight_gain" -> 500
      [] goal = "muscle_gain" -> 300
      [] OTHER -> 0

calculate_calorie_target(tdee, goal) == tdee + GoalAdjustment(goal) * 100000

\* the default macro ratios of a goal, in percent
MacroRatios(goal) ==
    CASE goal = "weight_loss" -> [protein |-> 30, carb |-> 40, fat |-> 30]
      [] goal = "muscle_gain" -> [protein |-> 35, carb |-> 45, fat |-> 20]
      [] goal = "weight_gain" -> [protein |-> 25, carb |-> 50, fat |-> 25]
      [] OTHER -> [protein |-> 30, carb |-> 45, fat |-> 25]

\* round((calories * pct / 100) / kcal_per_gram, 2) in hundredths of a
\* gram, the product split so that it stays within 32 bits
MacroGrams(calories, pct, kcal_per_gram) ==
    (calories \div (kcal_per_gram * 100000)) * pct
      + ((calories % (kcal_per_gram * 100000)) * pct
           + kcal_per_gram * 50000) \div (kcal_per_gram * 100000)

\* calculate_macro_targets: grams at 4, 4 and 9 kcal per gram
calculate_macro_targets(calories, goal) ==
    [protein |-> MacroGrams(calories, MacroRatios(goal).protein, 4),
     carbohydrates |-> MacroGrams(calories, MacroRatios(goal).carb, 4),
     fat |-> MacroGrams(calories, MacroRatios(goal).fat, 9)]

\* the four target entries put into user_data
TargetsFor(weight, height, age, gender, activity_level, goal) ==
    [daily_calorie_target |->
         {calculate_calorie_target(
              calculate_tdee(calculate_bmr(weight, height, age, gender),
                             activity_level), goal)},
     daily_protein_target |->
         {calculate_macro_targets(
              calculate_calorie_target(
                  calculate_tdee(calculate_bmr(weight, height, age, gender),
                                 activity_level), goal), goal).protein},
     daily_carb_target |->
         {calculate_macro_targets(
              calculate_calorie_target(
                  calculate_tdee(calculate_bmr(weight, height, age, gender),
                                 activity_level), goal), goal).carbohydrates},
     daily_fat_target |->
         {calculate_macro_targets(
              calculate_calorie_target(
                  calculate_tdee(calculate_bmr(weight, height, age, gender),
                                 activity_level), goal), goal).fat}]

NoTargets == [f \in TargetFields |-> {}]

\* the value of a string optional, or the default
OrDefault(opt, default) == IF TruthyString(opt) THEN ValueOf(opt) ELSE default

\* the user ids the table may hold
ProfileIds == {1}

\* UserService.create_user(db, user_data): User(**user_data), the targets
\* added when the four health fields are given
create_user(user_data) ==
    /\ next_profile_id \in ProfileIds
    /\ IF all_health_fields(user_data.weight, user_data.height,
                            user_data.age, user_data.gender)
       THEN IF BmrRaises(user_data.weight, user_data.height, user_data.age)
            THEN /\ profile_call' = [op |-> "create_user", user_id |-> 0,
                                     outcome |-> "raised",
                                     error |-> BmrError]
                 /\ UNCHANGED <<profiles, next_profile_id>>
            ELSE /\ profiles' =
                        profiles @@ (next_profile_id :>
                            (user_data @@ TargetsFor(
                                user_data.weight, user_data.height,
                                user_data.age, user_data.gender,
                                IF user_data.activity_level = {}
                                THEN "sedentary"
                                ELSE ValueOf(user_data.activity_level),
                                IF user_data.goal = {} THEN "maintenance"
                                ELSE ValueOf(user_data.goal))))
                 /\ next_profile_id' = next_profile_id + 1
                 /\ profile_call' = [op |-> "create_user",
                                     user_id |-> next_profile_id,
                                     outcome |-> "targets", error |-> None]
       ELSE /\ profiles' = profiles @@ (next_profile_id :>
                                           (user_data @@ NoTargets))
            /\ next_profile_id' = next_profile_id + 1
            /\ profile_call' = [op |-> "create_user",
                                user_id |-> next_profile_id,
                                outcome |-> "no targets", error |-> None]
    /\ UNCHANGED <<ratingVars, recVars, lazyVars, cfVars, planVars, logVars,
                   searchVars, indexVars>>

\* user_data.get(field, user.field)
Merged(user_data, user, field) ==
    IF user_data[field] # {} THEN user_data[field] ELSE user[field]

\* UserRepository.update: setattr for every key of user_data
Updated(user, user_data, targets) ==
    [f \in DOMAIN user |->
       IF f \in TargetFields
       THEN (IF targets[f] # {} THEN targets[f] ELSE user[f])
       ELSE Merged(user_data, user, f)]

\* UserService.update_user(db, user_id, user_data)
update_user(user_id, user_data) ==
    /\ IF user_id \notin DOMAIN profiles
       THEN /\ profile_call' = [op |-> "update_user", user_id |-> user_id,
                                outcome |-> "not found", error |-> None]
            /\ UNCHANGED <<profiles, next_profile_id>>
       ELSE IF /\ \E f \in HealthFields \cup {"activity_level", "goal"} :
                      user_data[f] # {}
               /\ all_health_fields(
                      Merged(user_data, profiles[user_id], "weight"),
                      Merged(user_data, profiles[user_id], "height"),
                      Merged(user_data, profiles[user_id], "age"),
                      Merged(user_data, profiles[user_id], "gender"))
       THEN IF BmrRaises(Merged(user_data, profiles[user_id], "weight"),
                         Merged(user_data, profiles[user_id], "height"),
                         Merged(user_data, profiles[user_id], "age"))
            THEN /\ profile_call' = [op |-> "update_user",
                                     user_id |-> user_id,
                                     outcome |-> "raised",
                                     error |-> BmrError]
                 /\ UNCHANGED <<profiles, next_profile_id>>
            ELSE /\ profiles' =
                        [profiles EXCEPT ![user_id] =
                           Updated(@, user_data, TargetsFor(
                               Merged(user_data, @, "weight"),
                               Merged(user_data, @, "height"),
                               Merged(user_data, @, "age"),
                               Merged(user_data, @, "gender"),
                               OrDefault(Merged(user_data, @,
                                   "activity_level"), "sedentary"),
                               OrDefault(Merged(user_data, @, "goal"),
                                         "maintenance")))]
                 /\ profile_call' = [op |-> "update_user",
                                     user_id |-> user_id,
                                     outcome |-> "targets", error |-> None]
                 /\ UNCHANGED next_profile_id
       ELSE /\ profiles' = [profiles EXCEPT ![user_id] =
                                Updated(@, user_data, NoTargets)]
            /\ profile_call' = [op |-> "update_user", user_id |-> user_id,
                                outcome |-> "no targets", error |-> None]
            /\ UNCHANGED next_profile_id
    /\ UNCHANGED <<ratingVars, recVars, lazyVars, cfVars, planVars, logVars,
                   searchVars, indexVars>>

InitUsers ==
    /\ InitRatingStores
    /\ InitRecommendation({"absent"})
    /\ InitOtherExcept("profile")
    /\ InitProfiles

NextUsers ==
    \/ \E user_data \in UserData : create_user(user_data)
    \/ \E user_id \in ProfileIds \cup {2}, user_data \in UserData :
           update_user(user_id, user_data)

SpecUsers == InitUsers /\ [][NextUsers]_vars

(***************************************************************************)
(* NutritionService.calculate_bmr called on its own.                       *)
(***************************************************************************)
BmrWeights == {0 - 5, 0, 70, 80}
BmrHeights == {0 - 1, 0, 175, 180}
BmrAges == {0 - 1, 0, 30, 40}
BmrGenders == {"male", "female", "other"}

NutritionService_calculate_bmr(weight, height, age, gender) ==
    /\ profile_call' =
           IF BmrRaises({weight}, {height}, {age})
           THEN [op |-> "calculate_bmr", user_id |-> 0,
                 outcome |-> "raised", error |-> BmrError,
                 args |-> <<weight, height, age, gender>>, bmr |-> {}]
           ELSE [op |-> "calculate_bmr", user_id |-> 0,
                 outcome |-> "returned", error |-> None,
                 args |-> <<weight, height, age, gender>>,
                 bmr |-> {calculate_bmr({weight}, {height}, {age},
                                        {gender})}]
    /\ UNCHANGED <<profiles, next_profile_id>>
    /\ UNCHANGED <<ratingVars, recVars, lazyVars, cfVars, planVars, logVars,
                   searchVars, indexVars>>

NextBmr ==
    \E weight \in BmrWeights, height \in BmrHeights, age \in BmrAges,
       gender \in BmrGenders :
        NutritionService_calculate_bmr(weight, height, age, gender)

SpecBmr == InitUsers /\ [][NextBmr]_vars

(***************************************************************************)
(* The meal log: MealService.add_user_meal, MealRepository.update and      *)
(* UserMealRepository.get_daily_nutrition.  Per-serving values are in      *)
(* thousandths, servings in halves, entry totals in halves of a            *)
(* thousandth.                                                             *)
(***************************************************************************)
MaxEntries == 2

NutritionFields == {"calories", "protein", "carbohydrates", "fat"}

\* per-serving values of a meal: 250 kcal / 12.5 / 30 / 8 g, and
\* 333.333 kcal / 10.126 / 40.001 / 7.777 g
NutritionValues ==
    {[calories |-> 250000, protein |-> 12500, carbohydrates |-> 30000,
      fat |-> 8000],
     [calories |-> 333333, protein |-> 10126, carbohydrates |-> 40001,
      fat |-> 7777]}

LogMealIds == {1, 2}

LogUsers == {1}

LogDates == {1, 2}

\* servings 1.0 and 1.5
ServingsHalves == {2, 3}

\* round(x, 2) of x = twice_x / 2 thousandths, to a multiple of 0.01; no
\* product of NutritionValues and ServingsHalves is a tie
Round2(twice_x) == 10 * ((twice_x + 10) \div 20)

\* meal.x * servings without the rounding
analyze_meal_nutrition_unrounded(meal, servings) ==
    [f \in NutritionFields |-> meal[f] * servings]

\* NutritionService.analyze_meal_nutrition(meal, servings)
analyze_meal_nutrition(meal, servings) ==
    [f \in NutritionFields |-> 2 * Round2(meal[f] * servings)]

\* MealService.add_user_meal(db, user_id, meal_id, meal_date, meal_type,
\* servings)
add_user_meal(user_id, meal_id, meal_date, servings) ==
    /\ Len(user_meal_rows) < MaxEntries
    /\ IF meal_id \notin DOMAIN meal_rows
       THEN /\ log_call' = [op |-> "add_user_meal", meal_id |-> meal_id,
                            outcome |-> "MealNotFoundException"]
            /\ UNCHANGED <<meal_rows, user_meal_rows>>
       ELSE /\ \E nutrition \in
                    {analyze_meal_nutrition(meal_rows[meal_id], servings)} :
                user_meal_rows' = Append(user_meal_rows,
                    [user_id |-> user_id, meal_id |-> meal_id,
                     date |-> meal_date, servings |-> servings,
                     total_calories |-> nutrition.calories,
                     total_protein |-> nutrition.protein,
                     total_carbohydrates |-> nutrition.carbohydrates,
                     total_fat |-> nutrition.fat])
            /\ log_call' = [op |-> "add_user_meal", meal_id |-> meal_id,
                            outcome |-> "created"]
            /\ UNCHANGED meal_rows
    /\ UNCHANGED <<ratingVars, recVars, lazyVars, cfVars, planVars,
                   profileVars, searchVars, indexVars>>

\* MealRepository.update(db, meal_id, meal_data): setattr on the meal row
MealRepository_update(meal_id, meal_data) ==
    /\ IF meal_id \in DOMAIN meal_rows
       THEN /\ meal_rows' = [meal_rows EXCEPT ![meal_id] = meal_data]
            /\ log_call' = [op |-> "update", meal_id |-> meal_id,
                            outcome |-> "updated"]
       ELSE /\ log_call' = [op |-> "update", meal_id |-> meal_id,
                            outcome |-> None]
            /\ UNCHANGED meal_rows
    /\ UNCHANGED user_meal_rows
    /\ UNCHANGED <<ratingVars, recVars, lazyVars, cfVars, planVars,
                   profileVars, searchVars, indexVars>>

\* func.sum of a total column over the rows at positions S
RECURSIVE SumTotal(_, _, _)
SumTotal(rows, S, column) ==
    IF S = {} THEN 0
    ELSE LET i == CHOOSE j \in S : TRUE
         IN  rows[i][column] + SumTotal(rows, S \ {i}, column)

\* the rows of a user on a date
RowsOn(rows, user_id, meal_date) ==
    {i \in DOMAIN rows :
        rows[i].user_id = user_id /\ rows[i].date = meal_date}

\* UserMealRepository.get_daily_nutrition(db, user_id, meal_date)
get_daily_nutrition(rows, user_id, meal_date) ==
    [total_calories |->
         SumTotal(rows, RowsOn(rows, user_id, meal_date), "total_calories"),
     total_protein |->
         SumTotal(rows, RowsOn(rows, user_id, meal_date), "total_protein"),
     total_carbohydrates |->
         SumTotal(rows, RowsOn(rows, user_id, meal_date),
                  "total_carbohydrates"),
     total_fat |->
         SumTotal(rows, RowsOn(rows, user_id, meal_date), "total_fat"),
     meal_count |-> Cardinality(RowsOn(rows, user_id, meal_date))]

InitLog ==
    /\ InitRatingStores
    /\ InitRecommendation({"absent"})
    /\ InitOtherExcept("log")
    /\ meal_rows \in [LogMealIds -> NutritionValues]
    /\ user_meal_rows = << >>
    /\ log_call = NoLogCall

NextLog ==
    \/ \E user_id \in LogUsers, meal_id \in LogMealIds \cup {3},
          meal_date \in LogDates, servings \in ServingsHalves :
           add_user_meal(user_id, meal_id, meal_date, servings)
    \/ \E meal_id \in LogMealIds \cup {3}, meal_data \in NutritionValues :
           MealRepository_update(meal_id, meal_data)

SpecLog == InitLog /\ [][NextLog]_vars

(***************************************************************************)
(* The ingredient search: AIRecipeService.find_recipes_by_ingredients and  *)
(* train_model on the global instance, and the endpoints /search and       *)
(* /train of controllers/ai_recipe_controller.py, one request at a time.   *)
(* A snapshot on disk, or a training run, holds StoredRecipes.  The        *)
(* ranking by TF-IDF similarity is not computed: the answer is any         *)
(* selection of `limit` of the recipes that pass min_ingredients_match.    *)
(***************************************************************************)
\* meal_data: meal 1 "rice, beans" and meal 2 "egg, brown rice"
StoredRecipes ==
    <<[meal_id |-> 1,
       ingredients |-> <<<<"r","i","c","e">>, <<"b","e","a","n","s">>>>],
      [meal_id |-> 2,
       ingredients |-> <<<<"e","g","g">>,
                         <<"b","r","o","w","n"," ","r","i","c","e">>>>]>>

\* request.ingredients: "rice" / " Egg", "kale" / "kale"
SearchIngredients ==
    {<<<<"r","i","c","e">>>>,
     <<<<" ","E","g","g">>, <<"k","a","l","e">>>>,
     <<<<"k","a","l","e">>>>}

SearchLimits == {1, 10}

MinMatches == {1, 2}

\* get_ai_service(): the global instance, created and loaded on first use
get_ai_service(service, created, trained, loads, file) ==
    IF service # 0
    THEN [service |-> service, created |-> created, trained |-> trained,
          loads |-> loads]
    ELSE [service |-> created + 1, created |-> created + 1,
          trained |-> ai_load_model(trained, loads, file, created + 1).trained,
          loads |-> ai_load_model(trained, loads, file, created + 1).loads]

\* matched_ingredients: the query ingredients found inside a stored one
matched_ingredients(normalized, recipe) ==
    Cardinality({i \in 1..Len(normalized) :
        \E j \in 1..Len(recipe.ingredients) :
            Contains(recipe.ingredients[j], normalized[i])})

\* the recipes that are not skipped by the loop of lines 161 to 196
Matching(ingredients, min_ingredients_match) ==
    {StoredRecipes[k].meal_id : k \in
        {k \in 1..Len(StoredRecipes) :
            matched_ingredients(
                [i \in 1..Len(ingredients) |-> Lower(Strip(ingredients[i]))],
                StoredRecipes[k]) >= min_ingredients_match}}

\* results[:limit] for some ranking of the matching recipes
Answers(ingredients, limit, min_ingredients_match) ==
    {R \in SUBSET Matching(ingredients, min_ingredients_match) :
        Cardinality(R) =
            Min2(limit,
                 Cardinality(Matching(ingredients, min_ingredients_match)))}

\* the record of a search with its arguments and its answer
SearchRecord(op, args, before, outcome, results) ==
    [op |-> op, ingredients |-> args[1], limit |-> args[2],
     min_ingredients_match |-> args[3], trained_before |-> before,
     file |-> ai_file, outcome |-> outcome, results |-> results]

\* the instance is trained once the call has tried _load_model
TrainedAfterLoad(g, file) ==
    ai_load_model(g.trained, g.loads, file, g.service).trained

LoadsAfterLoad(g, file) ==
    ai_load_model(g.trained, g.loads, file, g.service).loads

\* AIRecipeService.find_recipes_by_ingredients on the instance of g, for
\* a call that found the instance trained or not (before)
FindRecipes(op, g, before, ingredients, limit, min_ingredients_match) ==
    IF g.service \notin g.trained /\ ai_file # "present"
    THEN \* line 147: _load_model() is False
         /\ search_call' =
                SearchRecord(op, <<ingredients, limit, min_ingredients_match>>,
                             FALSE, "list", {})
         /\ ai_trained' = g.trained
         /\ ai_loads' = g.loads
    ELSE /\ IF ingredients = << >>
            THEN search_call' =
                     SearchRecord(op, <<ingredients, limit,
                                        min_ingredients_match>>,
                                  before, "list", {})
            ELSE \E R \in Answers(ingredients, limit, min_ingredients_match) :
                     search_call' =
                         SearchRecord(op, <<ingredients, limit,
                                            min_ingredients_match>>,
                                      before, "list", R)
         /\ ai_trained' = IF g.service \in g.trained THEN g.trained
                          ELSE TrainedAfterLoad(g, ai_file)
         /\ ai_loads' = IF g.service \in g.trained THEN g.loads
                        ELSE LoadsAfterLoad(g, ai_file)

searchFrame == <<ratingVars, recVars, cfVars, planVars, profileVars, logVars,
                 indexVars, lpc, lloc>>

\* a caller takes the global instance and calls
\* find_recipes_by_ingredients(ingredients, limit, min_ingredients_match)
find_recipes_by_ingredients(ingredients, limit, min_ingredients_match) ==
    /\ \E g \in {get_ai_service(ai_service, ai_created, ai_trained, ai_loads,
                                ai_file)} :
           /\ ai_service' = g.service
           /\ ai_created' = g.created
           /\ FindRecipes("find_recipes_by_ingredients", g,
                          g.service \in g.trained, ingredients, limit,
                          min_ingredients_match)
    /\ UNCHANGED <<searchFrame, ai_file>>

\* POST /api/ai-recipes/search
search_recipes_by_ingredients(ingredients, limit, min_ingredients_match) ==
    /\ \E g \in {get_ai_service(ai_service, ai_created, ai_trained, ai_loads,
                                ai_file)} :
           /\ ai_service' = g.service
           /\ ai_created' = g.created
           /\ IF g.service \notin g.trained /\ ai_file # "present"
              THEN \* lines 92 to 98: raise HTTPException(status_code=503)
                   /\ search_call' =
                          SearchRecord("search_recipes_by_ingredients",
                                       <<ingredients, limit,
                                         min_ingredients_match>>,
                                       FALSE, "503", {})
                   /\ ai_trained' = g.trained
                   /\ ai_loads' = g.loads
              ELSE \E h \in {[g EXCEPT
                                !.trained = IF g.service \in g.trained
                                            THEN g.trained
                                            ELSE TrainedAfterLoad(g, ai_file),
                                !.loads = IF g.service \in g.trained
                                          THEN g.loads
                                          ELSE LoadsAfterLoad(g, ai_file)]} :
                       FindRecipes("search_recipes_by_ingredients", h,
                                   g.service \in g.trained, ingredients,
                                   limit, min_ingredients_match)
    /\ UNCHANGED <<searchFrame, ai_file>>

\* POST /api/ai-recipes/train with recipes_count recipes that list
\* ingredients in the catalogue
train_model(recipes_count) ==
    /\ \E g \in {get_ai_service(ai_service, ai_created, ai_trained, ai_loads,
                                ai_file)} :
           /\ ai_service' = g.service
           /\ ai_created' = g.created
           /\ ai_loads' = g.loads
           /\ IF recipes_count < Len(StoredRecipes)
              THEN /\ search_call' = [NoSearchCall EXCEPT
                                        !.op = "train_model",
                                        !.file = ai_file,
                                        !.outcome = "400"]
                   /\ ai_trained' = g.trained
                   /\ UNCHANGED ai_file
              ELSE /\ search_call' = [NoSearchCall EXCEPT
                                        !.op = "train_model",
                                        !.file = ai_file,
                                        !.outcome = "trained"]
                   /\ ai_trained' = g.trained \cup {g.service}
                   /\ ai_file' = "present"
    /\ UNCHANGED searchFrame

\* the server process is started again: module state is fresh, the
\* snapshot on disk stays
ProcessStart ==
    /\ ai_service # 0
    /\ ai_service' = 0
    /\ ai_created' = 0
    /\ ai_trained' = {}
    /\ ai_loads' = 0
    /\ search_call' = NoSearchCall
    /\ UNCHANGED <<searchFrame, ai_file>>

InitSearch ==
    /\ InitRatingStores
    /\ InitRecommendation({"absent"})
    /\ InitLazy(AiFiles)
    /\ InitOtherExcept("lazy")

NextSearch ==
    \/ \E ingredients \in SearchIngredients \cup {<< >>},
          limit \in SearchLimits, min_ingredients_match \in MinMatches :
           find_recipes_by_ingredients(ingredients, limit,
                                       min_ingredients_match)
    \/ \E ingredients \in SearchIngredients, limit \in SearchLimits,
          min_ingredients_match \in MinMatches :
           search_recipes_by_ingredients(ingredients, limit,
                                         min_ingredients_match)
    \/ \E recipes_count \in {1, Len(StoredRecipes)} :
           train_model(recipes_count)
    \/ ProcessStart

SpecSearch == InitSearch /\ [][NextSearch]_vars

(***************************************************************************)
(* The ingredient index and the catalogue it is trained from:              *)
(* AIRecipeService.train_model / _load_model / _save_model and the         *)
(* endpoints /create, /meals/{meal_id}/rate and /train, one request at a   *)
(* time.  A vectorizer is named by the meal ids it was fitted on, a vector *)
(* by the vectorizer that produced it.                                     *)
(***************************************************************************)
\* the meal ids the catalogue may hold
RecipeIds == {1, 2}

\* RecipeCreateRequest.ingredients: "rice, beans" and " "
IndexTexts ==
    {<<"r","i","c","e",","," ","b","e","a","n","s">>, <<" ">>}

\* lines 52 to 55: the meals with meal.ingredients and
\* meal.ingredients.strip()
IngredientMeals(texts) ==
    {i \in DOMAIN texts : texts[i] # NoText /\ Strip(texts[i]) # NoText}

\* the order of MealRepository.get_all
RECURSIVE Ascending(_)
Ascending(S) ==
    IF S = {} THEN << >>
    ELSE <<CHOOSE x \in S : \A y \in S : x <= y>>
             \o Ascending(S \ {CHOOSE x \in S : \A y \in S : x <= y})

\* line 74: meal.average_rating if meal.average_rating > 0 else 2.5
IndexRating(average_rating) ==
    IF average_rating[1] > 0 THEN average_rating ELSE <<5, 2>>

\* lines 68 to 113: self.meal_data for the meals ids, vectors included
IndexEntries(ids, mt) ==
    [k \in 1..Len(ids) |->
       [meal_id |-> ids[k],
        average_rating |-> IndexRating(mt[ids[k]].average_rating),
        rating_count |-> mt[ids[k]].rating_count,
        vector |-> {ids}]]

\* train_model with self.meal_data = [] done before the count is tested
AIRecipeService_train_model_reset(m, snap, texts, mt) ==
    IF Cardinality(IngredientMeals(texts)) < 2
    THEN [matcher |-> [m EXCEPT !.meal_data = << >>], snapshot |-> snap,
          success |-> FALSE]
    ELSE [matcher |->
              [exists |-> TRUE, is_trained |-> TRUE,
               vectorizer |-> {Ascending(IngredientMeals(texts))},
               meal_data |->
                   IndexEntries(Ascending(IngredientMeals(texts)), mt)],
          snapshot |->
              [present |-> TRUE,
               vectorizer |-> {Ascending(IngredientMeals(texts))},
               meal_data |->
                   IndexEntries(Ascending(IngredientMeals(texts)), mt)],
          success |-> TRUE]

\* AIRecipeService.train_model(db) on the instance m: the instance, the
\* files written by _save_model and result["success"]
AIRecipeService_train_model(m, snap, texts, mt) ==
    IF Cardinality(IngredientMeals(texts)) < 2
    THEN [matcher |-> m, snapshot |-> snap, success |-> FALSE]
    ELSE [matcher |->
              [exists |-> TRUE, is_trained |-> TRUE,
               vectorizer |-> {Ascending(IngredientMeals(texts))},
               meal_data |->
                   IndexEntries(Ascending(IngredientMeals(texts)), mt)],
          snapshot |->
              [present |-> TRUE,
               vectorizer |-> {Ascending(IngredientMeals(texts))},
               meal_data |->
                   IndexEntries(Ascending(IngredientMeals(texts)), mt)],
          success |-> TRUE]

\* AIRecipeService._load_model() on the instance m: the vectors are made
\* again with the loaded vectorizer
AIRecipeService_load_model(m, snap) ==
    IF ~snap.present THEN m
    ELSE [exists |-> TRUE, is_trained |-> TRUE,
          vectorizer |-> snap.vectorizer,
          meal_data |-> [k \in 1..Len(snap.meal_data) |->
                           [snap.meal_data[k] EXCEPT
                              !.vector = snap.vectorizer]]]

\* get_ai_service(): the instance, created and loaded on first use
IndexService(m, snap) ==
    IF m.exists THEN m
    ELSE AIRecipeService_load_model([NoMatcher EXCEPT !.exists = TRUE], snap)

\* the write leaves the instance as it is
RetrainSkipped(g, snap, texts, mt) ==
    [matcher |-> g, snapshot |-> snap, success |-> FALSE]

\* lines 149 to 156 and 206 to 212: retrain when the instance is trained
Retrained(g, snap, texts, mt) ==
    IF g.is_trained THEN AIRecipeService_train_model(g, snap, texts, mt)
    ELSE [matcher |-> g, snapshot |-> snap, success |-> FALSE]

indexFrame == <<recVars, lazyVars, cfVars, planVars, profileVars, logVars,
                searchVars>>

\* POST /api/ai-recipes/create with the ingredients text
create_recipe(text) ==
    /\ Len(recipe_text) + 1 \in RecipeIds
    /\ recipe_text' = Append(recipe_text, text)
    /\ meals' = Append(meals, [average_rating |-> ZeroFrac,
                               rating_count |-> 0])
    /\ \E r \in {Retrained(IndexService(matcher, snapshot), snapshot,
                           recipe_text', meals')} :
           /\ matcher' = r.matcher
           /\ snapshot' = r.snapshot
           /\ index_call' = [op |-> "create_recipe",
                             meal_id |-> Len(recipe_text'),
                             status |-> "200",
                             trained |->
                                 IndexService(matcher, snapshot).is_trained,
                             retrained |-> r.success]
    /\ UNCHANGED <<recipe_ratings, meal_ratings, recipe_next_id,
                   meal_next_id, ratingRet, rpc, rreq>>
    /\ UNCHANGED <<indexFrame, trainer, finder>>

\* POST /api/ai-recipes/meals/{meal_id}/rate?user_id=
rate_recipe(meal_id, user_id, rating, comment) ==
    /\ IF meal_id \notin DOMAIN recipe_text \/ user_id \notin UserIds
       THEN /\ index_call' = [NoIndexCall EXCEPT !.op = "rate_recipe",
                                                 !.meal_id = meal_id,
                                                 !.status = "404"]
            /\ UNCHANGED <<ratingVars, matcher, snapshot>>
       ELSE /\ RecipeRatingRepository_create_or_update(user_id, meal_id,
                                                       rating, comment)
            /\ \E r \in {Retrained(IndexService(matcher, snapshot), snapshot,
                                   recipe_text, meals')} :
                   /\ matcher' = r.matcher
                   /\ snapshot' = r.snapshot
                   /\ index_call' =
                          [op |-> "rate_recipe", meal_id |-> meal_id,
                           status |-> "200",
                           trained |->
                               IndexService(matcher, snapshot).is_trained,
                           retrained |-> r.success]
    /\ UNCHANGED recipe_text
    /\ UNCHANGED <<indexFrame, trainer, finder>>

\* POST /api/ai-recipes/train
IndexTrainModel ==
    /\ \E r \in {AIRecipeService_train_model(
                     IndexService(matcher, snapshot), snapshot, recipe_text,
                     meals)} :
           /\ matcher' = r.matcher
           /\ snapshot' = r.snapshot
           /\ index_call' = [op |-> "train_model", meal_id |-> 0,
                             status |-> IF r.success THEN "200" ELSE "400",
                             trained |->
                                 IndexService(matcher, snapshot).is_trained,
                             retrained |-> r.success]
    /\ UNCHANGED <<ratingVars, recipe_text>>
    /\ UNCHANGED <<indexFrame, trainer, finder>>

\* MealRepository.update(db, meal_id, {"ingredients": text}): no retraining
IndexMealUpdate(meal_id, text) ==
    /\ IF meal_id \in DOMAIN recipe_text
       THEN recipe_text' = [recipe_text EXCEPT ![meal_id] = text]
       ELSE UNCHANGED recipe_text
    /\ index_call' = [NoIndexCall EXCEPT !.op = "update",
                                         !.meal_id = meal_id]
    /\ UNCHANGED <<ratingVars, matcher, snapshot>>
    /\ UNCHANGED <<indexFrame, trainer, finder>>

\* the server process is started again: the instance is gone, the
\* database and the snapshot stay
IndexProcessStart ==
    /\ matcher.exists
    /\ matcher' = NoMatcher
    /\ index_call' = NoIndexCall
    /\ UNCHANGED <<ratingVars, recipe_text, snapshot>>
    /\ UNCHANGED <<indexFrame, trainer, finder>>

\* an empty database, no snapshot, no instance
InitIndex ==
    /\ recipe_ratings = {}
    /\ meal_ratings = {}
    /\ meals = << >>
    /\ recipe_next_id = 1
    /\ meal_next_id = 1
    /\ ratingRet = NoRet
    /\ rpc = [p \in RatingProcs |-> "idle"]
    /\ rreq = [p \in RatingProcs |-> NoReq]
    /\ InitRecommendation({"absent"})
    /\ InitOther

NextIndex ==
    \/ \E text \in IndexTexts : create_recipe(text)
    \/ \E meal_id \in RecipeIds \cup {3}, user_id \in {1, 3},
          rating \in RatingValues :
           rate_recipe(meal_id, user_id, rating, None)
    \/ IndexTrainModel
    \/ \E meal_id \in RecipeIds \cup {3}, text \in IndexTexts :
           IndexMealUpdate(meal_id, text)
    \/ IndexProcessStart

SpecIndex == InitIndex /\ [][NextIndex]_vars

(***************************************************************************)
(* Two request threads on the global AIRecipeService instance: one inside  *)
(* rate_recipe and the train_model it calls, one inside                    *)
(* find_recipes_by_ingredients.  The endpoints are plain def functions,    *)
(* which the server runs in a thread pool; the service takes no lock.      *)
(* Every step is one statement that reads or writes an attribute of the    *)
(* instance.                                                               *)
(***************************************************************************)
\* TfidfVectorizer(...) before fit_transform
Unfitted == {<< >>}

threadFrame == <<recVars, lazyVars, cfVars, planVars, profileVars, logVars,
                 searchVars>>

\* rate_recipe up to the retraining: the rating is committed, then
\* train_model is entered when the instance is trained
TrainerRate(meal_id, user_id, rating) ==
    /\ trainer.pc = "idle"
    /\ meal_id \in DOMAIN recipe_text
    /\ RecipeRatingRepository_create_or_update(user_id, meal_id, rating, None)
    /\ matcher' = IndexService(matcher, snapshot)
    /\ trainer' = IF matcher'.is_trained
                  THEN [NoTrainer EXCEPT !.pc = "query"] ELSE NoTrainer
    /\ UNCHANGED <<recipe_text, snapshot, index_call, finder>>
    /\ UNCHANGED threadFrame

\* train_model lines 49 to 62: the meals are read, fewer than two end the
\* call
TrainerQuery ==
    /\ trainer.pc = "query"
    /\ trainer' =
           IF Cardinality(IngredientMeals(recipe_text)) < 2 THEN NoTrainer
           ELSE [pc |-> "reset",
                 ids |-> Ascending(IngredientMeals(recipe_text)),
                 rows |-> meals, k |-> 0]
    /\ UNCHANGED <<ratingVars, recipe_text, matcher, snapshot, index_call,
                   finder>>
    /\ UNCHANGED threadFrame

\* line 65: self.meal_data = [] binds a new list; a loop over the old list
\* keeps the old list
TrainerReset ==
    /\ trainer.pc = "reset"
    /\ matcher' = [matcher EXCEPT !.meal_data = << >>]
    /\ finder' = IF finder.attached
                 THEN [finder EXCEPT !.attached = FALSE,
                                     !.list = matcher.meal_data]
                 ELSE finder
    /\ trainer' = [trainer EXCEPT !.pc = "append", !.k = 1]
    /\ UNCHANGED <<ratingVars, recipe_text, snapshot, index_call>>
    /\ UNCHANGED threadFrame

\* lines 68 to 89: one self.meal_data.append of an entry without 'vector'
TrainerAppend ==
    /\ trainer.pc = "append"
    /\ matcher' =
           [matcher EXCEPT !.meal_data =
               Append(@, [IndexEntries(trainer.ids, trainer.rows)[trainer.k]
                            EXCEPT !.vector = {}])]
    /\ trainer' = IF trainer.k = Len(trainer.ids)
                  THEN [trainer EXCEPT !.pc = "vectorizer", !.k = 0]
                  ELSE [trainer EXCEPT !.k = @ + 1]
    /\ UNCHANGED <<ratingVars, recipe_text, snapshot, index_call, finder>>
    /\ UNCHANGED threadFrame

\* line 92: self.vectorizer = TfidfVectorizer(...)
TrainerVectorizer ==
    /\ trainer.pc = "vectorizer"
    /\ matcher' = [matcher EXCEPT !.vectorizer = Unfitted]
    /\ trainer' = [trainer EXCEPT !.pc = "fit"]
    /\ UNCHANGED <<ratingVars, recipe_text, snapshot, index_call, finder>>
    /\ UNCHANGED threadFrame

\* line 100: self.vectorizer.fit_transform(ingredient_texts)
TrainerFit ==
    /\ trainer.pc = "fit"
    /\ matcher' = [matcher EXCEPT !.vectorizer = {trainer.ids}]
    /\ trainer' = [trainer EXCEPT !.pc = "vectors", !.k = 1]
    /\ UNCHANGED <<ratingVars, recipe_text, snapshot, index_call, finder>>
    /\ UNCHANGED threadFrame

\* lines 112 and 113: meal['vector'] = ingredient_vectors[i] for one entry
TrainerVector ==
    /\ trainer.pc = "vectors"
    /\ matcher' = [matcher EXCEPT !.meal_data[trainer.k].vector =
                                      {trainer.ids}]
    /\ trainer' = IF trainer.k = Len(trainer.ids)
                  THEN [trainer EXCEPT !.pc = "save", !.k = 0]
                  ELSE [trainer EXCEPT !.k = @ + 1]
    /\ UNCHANGED <<ratingVars, recipe_text, snapshot, index_call, finder>>
    /\ UNCHANGED threadFrame

\* lines 116 to 125: _save_model, is_trained = True, and rate_recipe
\* returns
TrainerSave ==
    /\ trainer.pc = "save"
    /\ snapshot' = [present |-> TRUE, vectorizer |-> matcher.vectorizer,
                    meal_data |-> matcher.meal_data]
    /\ matcher' = [matcher EXCEPT !.is_trained = TRUE]
    /\ trainer' = NoTrainer
    /\ UNCHANGED <<ratingVars, recipe_text, index_call, finder>>
    /\ UNCHANGED threadFrame

\* find_recipes_by_ingredients lines 144 to 147: the model is loaded when
\* the instance is not trained, and [] returned when that fails
FinderCheck ==
    /\ finder.pc = "idle"
    /\ \E g \in {IndexService(matcher, snapshot)} :
          IF g.is_trained /\ g.vectorizer # {}
          THEN /\ matcher' = g
               /\ finder' = [NoFinder EXCEPT !.pc = "query"]
          ELSE /\ matcher' = AIRecipeService_load_model(g, snapshot)
               /\ finder' = IF snapshot.present
                            THEN [NoFinder EXCEPT !.pc = "query"]
                            ELSE [NoFinder EXCEPT !.outcome = "returned"]
    /\ UNCHANGED <<ratingVars, recipe_text, snapshot, index_call, trainer>>
    /\ UNCHANGED threadFrame

\* line 157: query_vector = self.vectorizer.transform([query_text]), which
\* raises NotFittedError on a vectorizer that was not fitted
FinderQuery ==
    /\ finder.pc = "query"
    /\ finder' = IF matcher.vectorizer = Unfitted
                 THEN [finder EXCEPT !.pc = "idle",
                                     !.outcome = "NotFittedError"]
                 ELSE [finder EXCEPT !.pc = "iterate",
                                     !.query = matcher.vectorizer]
    /\ UNCHANGED <<ratingVars, recipe_text, matcher, snapshot, index_call,
                   trainer>>
    /\ UNCHANGED threadFrame

\* line 161: the loop takes the list self.meal_data is bound to
FinderIterate ==
    /\ finder.pc = "iterate"
    /\ finder' = [finder EXCEPT !.pc = "loop", !.attached = TRUE, !.k = 1]
    /\ UNCHANGED <<ratingVars, recipe_text, matcher, snapshot, index_call,
                   trainer>>
    /\ UNCHANGED threadFrame

\* the list the loop runs over
FinderList == IF finder.attached THEN matcher.meal_data ELSE finder.list

\* lines 161 to 196 for one entry: meal_data['vector'] raises KeyError
\* when the entry has none; after the last entry the call returns
FinderNext ==
    /\ finder.pc = "loop"
    /\ finder' =
           IF finder.k > Len(FinderList)
           THEN [finder EXCEPT !.pc = "idle", !.attached = FALSE,
                               !.list = << >>, !.outcome = "returned"]
           ELSE IF FinderList[finder.k].vector = {}
           THEN [finder EXCEPT !.pc = "idle", !.attached = FALSE,
                               !.list = << >>, !.outcome = "KeyError",
                               !.seen = Append(@, {})]
           ELSE [finder EXCEPT !.k = @ + 1,
                               !.seen = Append(@, FinderList[finder.k].vector)]
    /\ UNCHANGED <<ratingVars, recipe_text, matcher, snapshot, index_call,
                   trainer>>
    /\ UNCHANGED threadFrame

\* two recipes with ingredients are stored and the index was trained on
\* them
InitIndexThreads ==
    /\ InitRatingStores
    /\ InitRecommendation({"absent"})
    /\ InitOtherExcept("index")
    /\ recipe_text \in [RecipeIds -> IndexTexts \ {<<" ">>}]
    /\ \E r \in {AIRecipeService_train_model(
                     [NoMatcher EXCEPT !.exists = TRUE], NoSnapshot,
                     recipe_text, meals)} :
           /\ matcher = r.matcher
           /\ snapshot = r.snapshot
    /\ index_call = NoIndexCall
    /\ trainer = NoTrainer
    /\ finder = NoFinder

NextIndexThreads ==
    \/ \E meal_id \in RecipeIds, rating \in RatingValues :
           TrainerRate(meal_id, 1, rating)
    \/ TrainerQuery
    \/ TrainerReset
    \/ TrainerAppend
    \/ TrainerVectorizer
    \/ TrainerFit
    \/ TrainerVector
    \/ TrainerSave
    \/ FinderCheck
    \/ FinderQuery
    \/ FinderIterate
    \/ FinderNext

SpecIndexThreads == InitIndexThreads /\ [][NextIndexThreads]_vars

(***************************************************************************)
(* Properties of the rating stores                                         *)
(***************************************************************************)
\* the mean of the rows S, stated by cross-multiplication
IsMeanOf(avg, S) ==
    IF S = {} THEN avg = ZeroFrac
    ELSE avg[2] > 0 /\ avg[1] * Cardinality(S) = SumRating(S) * avg[2]

StoredAggregateMatches(rows, m) ==
    /\ meals[m].rating_count = Cardinality(RowsOfMeal(rows, m))
    /\ IsMeanOf(meals[m].average_rating, RowsOfMeal(rows, m))

\* C2: after any sequence of RecipeRatingRepository.create_or_update and
\* delete calls run one at a time, every meal's stored average_rating and
\* rating_count are the mean and the number of its recipe_ratings rows
\* (0.0 and 0 when it has none).
C2_AggregateEqualsLiveRows ==
    \A m \in MealIds : StoredAggregateMatches(recipe_ratings, m)

\* a delete has just shrunk a meal from two raters (1 and 4) to the one
\* who gave 4, next to a rated other meal
C2_Witness ==
    /\ ratingRet.op = "recipe_delete"
    /\ ratingRet.ret = "True"
    /\ ratingRet.rating = 1
    /\ meals[ratingRet.meal_id] = [average_rating |-> <<4, 1>>,
                                   rating_count |-> 1]

\* C3: once two interleaved create_or_update calls by different users on
\* one meal have both returned, the meal's stored aggregate is the mean and
\* count over the meal's committed rows.
C3_ConcurrentRatersAtomic ==
    \A p, q \in RatingProcs :
        ( /\ p # q
          /\ rpc[p] = "done" /\ rpc[q] = "done"
          /\ rreq[p].repo = "recipe" /\ rreq[q].repo = "recipe"
          /\ rreq[p].user_id # rreq[q].user_id
          /\ rreq[p].meal_id = rreq[q].meal_id )
        => StoredAggregateMatches(recipe_ratings, rreq[p].meal_id)

RatingTableOf(op) ==
    IF op \in {"recipe_create_or_update", "recipe_delete"}
    THEN recipe_ratings ELSE meal_ratings

\* C4: after an upsert of (user, meal) returns, called one after another,
\* the store holds exactly one row of the pair, that row has the value just
\* given, and the meal's stored average/count are those of the meal's rows
\* (so they count the user once, with the last value).
C4_UpsertOneRowLatestValue ==
    ( /\ ratingRet.op \in {"recipe_create_or_update",
                           "meal_create_or_update_rating"}
      /\ ratingRet.ret = "row" )
    => LET rows == RatingTableOf(ratingRet.op)
           own  == RowsOfUserMeal(rows, ratingRet.user_id, ratingRet.meal_id)
       IN  /\ Cardinality(own) = 1
           /\ \A x \in own : x.rating = ratingRet.rating
           /\ StoredAggregateMatches(rows, ratingRet.meal_id)

\* C5: no rating store ever holds two rows of one (user, meal) pair, also
\* when two upserts of the pair both check before either inserts.
C5_UniquePairUnderConcurrency ==
    \A rows \in {recipe_ratings, meal_ratings} :
        \A x, y \in rows :
            (x.user_id = y.user_id /\ x.meal_id = y.meal_id) => x.id = y.id

\* C6: after a delete of an existing rating has returned true, the meal's
\* stored average_rating and rating_count are the mean and count of the
\* meal's remaining rows.
C6_DeleteRecomputesAggregate ==
    ( /\ ratingRet.op \in {"recipe_delete", "meal_delete_rating",
                           "meal_delete"}
      /\ ratingRet.ret = "True" )
    => StoredAggregateMatches(RatingTableOf(ratingRet.op), ratingRet.meal_id)

(***************************************************************************)
(* Properties of the recommendation services and the result cache          *)
(***************************************************************************)
\* the dietary flags of the meal with the given id
FlagsOfMeal(id) ==
    MealRows[CHOOSE i \in 1..Len(MealRows) : MealRows[i].id = id].flags

ReturnedMeals == {recCall.result[i].meal : i \in 1..Len(recCall.result)}

\* C1: no list returned by either get_recommendations contains a meal that
\* lacks a dietary flag which the user's stored preference requires at the
\* time of the call.
C1_DietaryFlagsAreHardFilters ==
    recCall.outcome = "ok"
    => \A m \in ReturnedMeals : recCall.required \subseteq FlagsOfMeal(m)

\* C7: a call to MLRecommendationService.get_recommendations made less than
\* 1800 seconds after an earlier successful call with the same user_id,
\* category, limit and use_ml returns that earlier result without
\* recomputing, whichever session object is passed and however the arguments
\* are written.
C7_CachedPerFourValues ==
    (recCall.svc = "ml" /\ recCall.earlier # {})
    => (~recCall.computed /\ recCall.result \in recCall.earlier)

\* C8: at most one caller at a time is between the cache lookup and the
\* cache store of the wrapper for a key, so the wrapped function is not
\* executed twice for one missing entry.
C8_ReadCheckWriteExclusive ==
    \A p, q \in CacheProcs :
        ( /\ cpc[p] \in {"call", "store"}
          /\ cpc[q] \in {"call", "store"}
          /\ creq[p].key = creq[q].key )
        => p = q

\* C9: a get_recommendations call for a user_id that has no stored user
\* fails with UserNotFound and returns no list.
C9_UnknownUserFails ==
    (recCall.svc # None /\ ~recCall.stored)
    => (recCall.outcome = "UserNotFound" /\ recCall.result = << >>)

\* the model file is absent or cannot be loaded, or the model's prediction
\* call raises
MlUnavailable == recCall.file \in {"absent", "corrupt"} \/ recCall.raises

\* C10: when the model file is absent, fails to load, or the prediction call
\* raises, MLRecommendationService.get_recommendations with use_ml = true for
\* a stored user returns normally, and every returned item's score is its
\* content score and its ml_score is null.
C10_DegradesToContentOnly ==
    ( /\ recCall.svc = "ml"
      /\ recCall.use_ml
      /\ recCall.stored
      /\ MlUnavailable )
    => /\ recCall.outcome = "ok"
       /\ \A i \in 1..Len(recCall.result) :
            /\ recCall.result[i].score = recCall.result[i].content_score
            /\ recCall.result[i].ml_score = << >>

\* a computed call with a loaded model whose prediction raises has returned
\* two scored meals
C10_Witness ==
    /\ recCall.svc = "ml"
    /\ recCall.use_ml
    /\ recCall.stored
    /\ recCall.computed
    /\ recCall.raises
    /\ recCall.file = "faulty"
    /\ recCall.outcome = "ok"
    /\ Len(recCall.result) = 2

\* the pairs the collaborative model returned to the last computed call
PredictionsOfCall ==
    ml_predictions(recCall.use_ml, ml_model, recCall.user_id,
                   [i \in 1..Len(MealRows) |-> MealRows[i].id], recCall.limit)

\* the raw predictions returned for a meal (at most one)
PredictedFor(meal_id) ==
    {PredictionsOfCall[j][2] : j \in {k \in 1..Len(PredictionsOfCall) :
                                        PredictionsOfCall[k][1] = meal_id}}

\* C11: for every meal kept by MLRecommendationService.get_recommendations,
\* when the model returned a prediction p for it the hybrid score is
\* 0.6 * ((clamp(p, 1, 5) - 1) / 4) + 0.4 * content_score, also when the
\* normalised value is 0; without a prediction it is content_score alone.
C11_HybridFormula ==
    (recCall.svc = "ml" /\ recCall.computed /\ recCall.outcome = "ok")
    => \A i \in 1..Len(recCall.result) :
         LET item == recCall.result[i]
         IN  /\ \A p \in PredictedFor(item.meal) :
                  item.score =
                      Round3((6 * ((Max2(1000, Min2(5000, p)) - 1000) * 250)
                              + 4 * (1000 * item.content_score)) \div 10)
             /\ PredictedFor(item.meal) = {} =>
                  item.score = item.content_score

(***************************************************************************)
(* Lazy loading under concurrent first use                                 *)
(***************************************************************************)
\* C12: concurrent first calls of _load_ml_model, and of get_ai_service,
\* are serialized: the snapshot is loaded at most once, one service object
\* is constructed at most, and all callers of the same function that have
\* returned hold the same instance.
C12_LazyLoadSerialized ==
    /\ model_loads <= 1
    /\ ai_loads <= 1
    /\ ai_created <= 1
    /\ \A p, q \in LazyProcs :
           (lpc[p] = "done" /\ lpc[q] = "done" /\ lloc[p].fn = lloc[q].fn)
               => lloc[p].ret = lloc[q].ret

(***************************************************************************)
(* The collaborative filtering model                                       *)
(***************************************************************************)
\* C13: in every trained state predict_rating returns a value in [1, 5]
\* (1000..5000 thousandths) for every user and every meal, unknown users
\* and meals without a popularity score included.
C13_PredictionInRange ==
    cf_call.op = "predict_rating"
        => (cf_call.rating >= 1000 /\ cf_call.rating <= 5000)

\* the meals the user of the last call has rated in the trained model
RatedByCaller ==
    IF cf_call.user_id \in DOMAIN cf_model.user_ratings
    THEN DOMAIN cf_model.user_ratings[cf_call.user_id] ELSE {}

\* the candidate meals of the last call
CandidatesOfCall ==
    {cf_call.all_meal_ids[i] : i \in 1..Len(cf_call.all_meal_ids)}

\* the pairs are <<meal, score>> of candidates, best score first
RankedCandidates(pairs) ==
    /\ \A i \in 1..Len(pairs) : pairs[i][1] \in CandidatesOfCall
    /\ \A i, j \in 1..Len(pairs) : i < j => pairs[i][2] >= pairs[j][2]
    /\ \A i, j \in 1..Len(pairs) : i # j => pairs[i][1] # pairs[j][1]

\* C14: get_recommendations returns at most limit (meal, score) pairs in
\* non-increasing score order; when the user has a candidate left to rate,
\* no returned meal is one the user rated and each score is the predicted
\* rating, and only when the user rated every candidate are the candidates
\* returned with their popularity.
C14_TopUnratedCandidates ==
    cf_call.op = "get_recommendations" =>
        /\ Len(cf_call.pairs) <= cf_call.limit
        /\ RankedCandidates(cf_call.pairs)
        /\ IF CandidatesOfCall \subseteq RatedByCaller
           THEN /\ Len(cf_call.pairs)
                     = Min2(cf_call.limit, Len(cf_call.all_meal_ids))
                /\ \A i \in 1..Len(cf_call.pairs) :
                       cf_call.pairs[i][2]
                           = Popularity(cf_model, cf_call.pairs[i][1])
           ELSE /\ Len(cf_call.pairs)
                     = Min2(cf_call.limit,
                            Cardinality(CandidatesOfCall \ RatedByCaller))
                /\ \A i \in 1..Len(cf_call.pairs) :
                       /\ cf_call.pairs[i][1] \notin RatedByCaller
                       /\ cf_call.pairs[i][2]
                              = predict_rating(cf_model, cf_call.user_id,
                                               cf_call.pairs[i][1])

\* a call for a user who rated one of three candidates, cut to the limit
C14_Witness ==
    /\ cf_call.op = "get_recommendations"
    /\ CandidatesOfCall \cap RatedByCaller # {}
    /\ Cardinality(CandidatesOfCall \ RatedByCaller) > cf_call.limit
    /\ Len(cf_call.pairs) = cf_call.limit
    /\ \E m \in CandidatesOfCall \ RatedByCaller :
           predict_rating(cf_model, cf_call.user_id, m) < cf_call.pairs[1][2]

(***************************************************************************)
(* The meal planner                                                        *)
(***************************************************************************)
\* the meals of the request's catalogue that pass the request's preference
EligibleForRequest ==
    filter_by_preferences(PlannerMeals(plan_req.catalogue),
                          plan_req.preference)

AllSlots == {MealTypes[i] : i \in 1..Len(MealTypes)}

DislikedParts(preference) ==
    {Lower(Strip(x)) :
        x \in {SplitComma(preference.disliked_ingredients, << >>)[i] :
                 i \in 1..Len(SplitComma(preference.disliked_ingredients,
                                         << >>))}} \ {<< >>}

\* C16: every meal placed in a slot of a plan has every dietary flag the
\* user's preference requires, and its ingredients text contains none of
\* the disliked ingredients, compared case-insensitively; this covers the
\* meals of a bucket filled by the fallback.
C16_PlacedMealsPassPreference ==
    plan_req.preference.exists =>
        \A id \in used_meal_ids :
            /\ plan_req.preference.flags
                   \subseteq PlannerMeals(plan_req.catalogue)[id].flags
            /\ \A part \in DislikedParts(plan_req.preference) :
                   ~Contains(Lower(PlannerMeals(plan_req.catalogue)[id]
                                       .ingredients), part)

\* a 14-day plan for the vegan who dislikes tofu, from a catalogue whose
\* breakfast, lunch and snack buckets are filled by the fallback, and in
\* which every eligible meal has been placed
C16_Witness ==
    /\ plan_pc = "done"
    /\ plan_result.success
    /\ plan_req.catalogue = "one_category"
    /\ plan_req.preference.exists
    /\ DislikedParts(plan_req.preference) # {}
    /\ Len(EligibleForRequest) < CatalogueSize
    /\ Cardinality(used_meal_ids) = Len(EligibleForRequest)

\* C17: a request with days outside 1..14 is rejected with a validation
\* error (status 400) and no plan is made, on both endpoints.
C17_DaysOutOfRangeRejected ==
    (plan_req.endpoint # None /\ plan_req.days \notin 1..MaxPlanDays)
    => /\ plan_pc = "done"
       /\ plan_result.status = "400"
       /\ ~plan_result.success
       /\ weekly_plan = << >>

(***************************************************************************)
(* User profiles                                                           *)
(***************************************************************************)
\* C18: after any sequence of create_user and update_user calls, a user
\* whose weight, height, age or gender is absent has the four daily targets
\* absent.
C18_NoTargetsWithoutHealthFields ==
    \A u \in DOMAIN profiles :
        (\E f \in HealthFields : profiles[u][f] = {})
            => \A t \in TargetFields : profiles[u][t] = {}

\* an update gave a user a weight while the gender is still absent
C18_Witness ==
    /\ profile_call.op = "update_user"
    /\ profile_call.user_id \in DOMAIN profiles
    /\ profiles[profile_call.user_id].weight = {70}
    /\ profiles[profile_call.user_id].height = {175}
    /\ profiles[profile_call.user_id].age = {30}
    /\ profiles[profile_call.user_id].gender = {}

(***************************************************************************)
(* Meal log                                                                *)
(***************************************************************************)
\* no stored row changes, and so no daily aggregate
EntriesFrozen ==
    /\ \A i \in DOMAIN user_meal_rows :
           i \in DOMAIN user_meal_rows'
               /\ user_meal_rows'[i] = user_meal_rows[i]
    /\ meal_rows' # meal_rows =>
           \A u \in LogUsers, d \in LogDates :
               get_daily_nutrition(user_meal_rows', u, d)
                   = get_daily_nutrition(user_meal_rows, u, d)

\* C19 as stated: a new consumption entry's totals are exactly the meal's
\* per-serving values at that time multiplied by servings, and no later
\* MealRepository.update changes a stored entry or a daily aggregate.
C19_TotalsExactProduct ==
    [][/\ \A i \in DOMAIN user_meal_rows' \ DOMAIN user_meal_rows :
              \A f \in NutritionFields :
                  user_meal_rows'[i]["total_" \o f]
                      = meal_rows[user_meal_rows'[i].meal_id][f]
                            * user_meal_rows'[i].servings
       /\ EntriesFrozen]_vars

\* C19 amended: a new consumption entry's totals are the meal's per-serving
\* values at that time multiplied by servings and rounded to two decimals,
\* and no later MealRepository.update changes a stored entry or a daily
\* aggregate.
C19_TotalsRoundedProduct ==
    [][/\ \A i \in DOMAIN user_meal_rows' \ DOMAIN user_meal_rows :
              \A f \in NutritionFields :
                  user_meal_rows'[i]["total_" \o f]
                      = 2 * Round2(meal_rows[user_meal_rows'[i].meal_id][f]
                                       * user_meal_rows'[i].servings)
       /\ EntriesFrozen]_vars

\* an entry was logged from a meal whose per-serving values have since
\* been changed by MealRepository.update
C19_Witness ==
    /\ log_call.op = "update"
    /\ log_call.outcome = "updated"
    /\ \E i \in DOMAIN user_meal_rows :
           /\ user_meal_rows[i].meal_id = log_call.meal_id
           /\ user_meal_rows[i].total_calories
                  # 2 * Round2(meal_rows[log_call.meal_id].calories
                                   * user_meal_rows[i].servings)

(***************************************************************************)
(* Ingredient search                                                       *)
(***************************************************************************)
\* C20: an ingredient search made while the matcher is untrained and no
\* snapshot is on disk completes with a result list, in
\* find_recipes_by_ingredients and at the search endpoint.
C20_AbsentSnapshotSearchCompletes ==
    (/\ search_call.op \in {"find_recipes_by_ingredients",
                            "search_recipes_by_ingredients"}
     /\ ~search_call.trained_before
     /\ search_call.file = "absent")
        => search_call.outcome = "list"

(***************************************************************************)
(* Ingredient index                                                        *)
(***************************************************************************)
\* C21: a train_model call made while fewer than 2 stored meals have
\* ingredient text fails (no success, status 400 at the endpoint) and leaves
\* the instance's trained flag, vectorizer and per-meal data and the
\* snapshot on disk as they were.
C21_FailedTrainingKeepsIndex ==
    [][(index_call'.op = "train_model"
          /\ Cardinality(IngredientMeals(recipe_text)) < 2)
       => /\ index_call'.status = "400"
          /\ ~index_call'.retrained
          /\ snapshot' = snapshot
          /\ matcher' = IndexService(matcher, snapshot)]_vars

\* a trained index was asked to train again after the catalogue had lost
\* its ingredient texts, and still holds its entries
C21_Witness ==
    /\ index_call.op = "train_model"
    /\ index_call.status = "400"
    /\ index_call.trained
    /\ matcher.is_trained
    /\ Len(matcher.meal_data) >= 2
    /\ snapshot.present

(***************************************************************************)
(* Nutrition targets                                                       *)
(***************************************************************************)
\* create_user has just stored the user of 70 kg, 175 cm, 30 years, male,
\* moderately active, maintenance
ExampleUserCreated ==
    /\ profile_call.op = "create_user"
    /\ profile_call.outcome = "targets"
    /\ profiles[profile_call.user_id].weight = {70}
    /\ profiles[profile_call.user_id].height = {175}
    /\ profiles[profile_call.user_id].age = {30}
    /\ profiles[profile_call.user_id].gender = {"male"}
    /\ profiles[profile_call.user_id].activity_level = {"moderately_active"}
    /\ profiles[profile_call.user_id].goal = {"maintenance"}

\* the macro target is about grams100 hundredths of a gram
About(target, grams100) ==
    \E g \in target : g >= grams100 - 5 /\ g < grams100 + 5

\* C22 as stated: for that user bmr = 1727.5, tdee = 2677.625, the calorie
\* target is 2677.625 and the macro targets are about 200.8 g protein,
\* 301.2 g carbohydrates and 74.4 g fat.
C22_ExampleTargetsAsStated ==
    ExampleUserCreated =>
        /\ calculate_bmr({70}, {175}, {30}, {"male"}) = 172750
        /\ calculate_tdee(calculate_bmr({70}, {175}, {30}, {"male"}),
                          "moderately_active") = 267762500
        /\ profiles[profile_call.user_id].daily_calorie_target = {267762500}
        /\ About(profiles[profile_call.user_id].daily_protein_target, 20080)
        /\ About(profiles[profile_call.user_id].daily_carb_target, 30120)
        /\ About(profiles[profile_call.user_id].daily_fat_target, 7440)

\* C22 amended: for that user bmr = 1648.75, tdee = 2555.5625, the calorie
\* target is 2555.5625 and the macro targets are 191.67 g protein, 287.5 g
\* carbohydrates and 70.99 g fat.
C22_ExampleTargets ==
    ExampleUserCreated =>
        /\ calculate_bmr({70}, {175}, {30}, {"male"}) = 164875
        /\ calculate_tdee(calculate_bmr({70}, {175}, {30}, {"male"}),
                          "moderately_active") = 255556250
        /\ profiles[profile_call.user_id].daily_calorie_target = {255556250}
        /\ profiles[profile_call.user_id].daily_protein_target = {19167}
        /\ profiles[profile_call.user_id].daily_carb_target = {28750}
        /\ profiles[profile_call.user_id].daily_fat_target = {7099}

C22_Witness ==
    /\ ExampleUserCreated
    /\ profiles[profile_call.user_id].daily_calorie_target # {}

\* C23: calculate_bmr called with weight <= 0, height <= 0 or age <= 0
\* fails with InvalidNutritionDataException, not with another error and
\* not with a number.
C23_NonPositiveInputIsInvalidNutritionData ==
    (/\ profile_call.op = "calculate_bmr"
     /\ \E i \in 1..3 : profile_call.args[i] <= 0)
    => /\ profile_call.outcome = "raised"
       /\ profile_call.error = "InvalidNutritionDataException"
       /\ profile_call.bmr = {}

(***************************************************************************)
(* Retraining on writes                                                    *)
(***************************************************************************)
\* the index m holds exactly the meals of texts with ingredient text, each
\* with the stored average of mt, 2.5 for an unrated meal
IndexIsCurrent(m, texts, mt) ==
    /\ Len(m.meal_data) = Cardinality(IngredientMeals(texts))
    /\ {m.meal_data[k].meal_id : k \in DOMAIN m.meal_data}
         = IngredientMeals(texts)
    /\ \A k \in DOMAIN m.meal_data :
          m.meal_data[k].average_rating =
              IF mt[m.meal_data[k].meal_id].rating_count = 0
              THEN <<5, 2>>
              ELSE mt[m.meal_data[k].meal_id].average_rating

\* a create_recipe or rate_recipe request that wrote, answered by a trained
\* index
WriteOnTrainedIndex ==
    /\ index_call'.op \in {"create_recipe", "rate_recipe"}
    /\ index_call'.status = "200"
    /\ index_call'.trained

TargetsOfStored(profile) ==
    TargetsFor(profile.weight, profile.height, profile.age, profile.gender,
               OrDefault(profile.activity_level, "sedentary"),
               OrDefault(profile.goal, "maintenance"))

\* C25: after any sequence of create_user and update_user calls, a user's
\* stored daily targets, when present, equal the calorie target and macro
\* targets computed from the stored weight, height, age, gender,
\* activity_level and goal.
C25_StoredTargetsMatchStoredFields ==
    \A id \in DOMAIN profiles :
        profiles[id].daily_calorie_target # {} =>
            /\ all_health_fields(profiles[id].weight, profiles[id].height,
                                 profiles[id].age, profiles[id].gender)
            /\ ~BmrRaises(profiles[id].weight, profiles[id].height,
                          profiles[id].age)
            /\ [f \in TargetFields |-> profiles[id][f]]
                 = TargetsOfStored(profiles[id])

(***************************************************************************)
(* The ML stage of the hybrid recommendations                              *)
(***************************************************************************)
\* this step is a computed get_recommendations call that used the model
MlCallReturned ==
    /\ recCall' # recCall
    /\ recCall'.svc = "ml"
    /\ recCall'.computed
    /\ recCall'.use_ml
    /\ recCall'.outcome = "ok"

\* the content score the call gives the meal with this id
ContentScoreInCall(meal_id) ==
    calculate_meal_score(
        MealRows[CHOOSE i \in 1..Len(MealRows) : MealRows[i].id = meal_id],
        UserRow(recCall'.user_id), get_by_user_id(prefs, recCall'.user_id),
        UserMeals(recCall'.user_id), TodayNutrition(recCall'.user_id))

\* C26: the 3 * limit predictions requested from the collaborative model
\* are for meals whose content score is not 0: a hard-filtered meal never
\* takes one of the prediction places.
C26_PredictionsOnlyForSurvivors ==
    [][MlCallReturned =>
         \A j \in 1..Len(ml_predictions(TRUE, ml_model', recCall'.user_id,
                             [i \in 1..Len(MealRows) |-> MealRows[i].id],
                             recCall'.limit)) :
             ContentScoreInCall(
                 ml_predictions(TRUE, ml_model', recCall'.user_id,
                     [i \in 1..Len(MealRows) |-> MealRows[i].id],
                     recCall'.limit)[j][1]) # 0]_vars

(***************************************************************************)
(* The choice of a meal for a slot                                         *)
(***************************************************************************)
\* the ids used when slot k of the day entry was filled
UsedAtSlot(entry, k) ==
    entry.used_before \cup ({entry.meals[j] : j \in 1..(k - 1)} \ {0})

\* the bucket of slot k
BucketOfSlot(k) == meals_by_category[MealTypes[k]]

\* the meals of slot k's bucket that were considered
ConsideredAtSlot(entry, k) ==
    IF \E i \in 1..Len(BucketOfSlot(k)) :
           BucketOfSlot(k)[i].id \notin UsedAtSlot(entry, k)
    THEN {i \in 1..Len(BucketOfSlot(k)) :
            BucketOfSlot(k)[i].id \notin UsedAtSlot(entry, k)}
    ELSE 1..Len(BucketOfSlot(k))

\* |meal.calories - slot_target| of the bucket's i-th meal; the divisor
\* slot_target + 1 is the same for the whole slot
CalorieDistance(k, i) ==
    Abs(BucketOfSlot(k)[i].calories
          - (DefaultDailyCalories * CalorieRatioPct(MealTypes[k])) \div 100)

\* C27: a meal already used is chosen for a slot only when every meal of
\* the slot's bucket has been used, and the chosen meal is one of the at
\* most 3 considered candidates with the smallest
\* |meal.calories - slot_target| / (slot_target + 1).
C27_UnusedFirstAmongThreeClosest ==
    \A d \in 1..Len(weekly_plan) : \A k \in 1..4 :
        weekly_plan[d].meals[k] # 0 =>
            /\ weekly_plan[d].meals[k] \in UsedAtSlot(weekly_plan[d], k)
                 => \A i \in 1..Len(BucketOfSlot(k)) :
                        BucketOfSlot(k)[i].id \in UsedAtSlot(weekly_plan[d], k)
            /\ \E c \in ConsideredAtSlot(weekly_plan[d], k) :
                 /\ BucketOfSlot(k)[c].id = weekly_plan[d].meals[k]
                 /\ Cardinality({i \in ConsideredAtSlot(weekly_plan[d], k) :
                        CalorieDistance(k, i) < CalorieDistance(k, c)})
                      < TopChoices

\* on the second day a used meal fills a slot whose bucket is used up,
\* after a slot that was filled with an unused meal
C27_Witness ==
    /\ Len(weekly_plan) = 2
    /\ \E k \in 1..4 :
          weekly_plan[2].meals[k] \in UsedAtSlot(weekly_plan[2], k)
    /\ \E k \in 1..4 :
          /\ weekly_plan[2].meals[k] # 0
          /\ weekly_plan[2].meals[k] \notin UsedAtSlot(weekly_plan[2], k)
          /\ Cardinality(ConsideredAtSlot(weekly_plan[2], k)) > TopChoices

(***************************************************************************)
(* Upserts of a rating                                                     *)
(***************************************************************************)
\* C28: an upsert on an existing (user, meal) rating overwrites the stored
\* value and the stored text with the value and the text of the call, none
\* included, in MealRatingRepository.create_or_update_rating and in
\* RecipeRatingRepository.create_or_update.
C28_UpsertOverwritesValueAndText ==
    [][\A u \in UserIds, m \in MealIds, r \in RatingValues, c \in Comments :
         /\ (/\ ratingRet'.op = "recipe_create_or_update"
             /\ RowsOfUserMeal(recipe_ratings, u, m) # {}
             /\ RecipeRatingRepository_create_or_update(u, m, r, c))
            => \A e \in RowsOfUserMeal(recipe_ratings', u, m) :
                   e.rating = r /\ e.comment = c
         /\ (/\ ratingRet'.op = "meal_create_or_update_rating"
             /\ RowsOfUserMeal(meal_ratings, u, m) # {}
             /\ MealRatingRepository_create_or_update_rating(u, m, r, c))
            => \A e \in RowsOfUserMeal(meal_ratings', u, m) :
                   e.rating = r /\ e.review = c]_vars

(***************************************************************************)
(* Loading the collaborative model                                         *)
(***************************************************************************)
\* C30: once the first _load_ml_model call of the process has returned
\* (model loaded, file absent, or load failed), every later call returns
\* the same outcome without touching the file: a model file that appears
\* or becomes loadable afterwards is never picked up.
C30_ModelLoadedOnce ==
    [][model_loaded =>
         /\ model_loaded'
         /\ ml_model' = ml_model
         /\ ml_instance' = ml_instance
         /\ model_loads' = model_loads
         /\ load_ml_model(model_loaded', ml_model', model_file').model
              = ml_model]_vars

\* a call that used the model was computed while a trained model file was
\* on disk, and the process still holds no model
C30_Witness ==
    /\ recCall.svc = "ml"
    /\ recCall.use_ml
    /\ recCall.computed
    /\ recCall.outcome = "ok"
    /\ recCall.file = "trained"
    /\ model_file = "trained"
    /\ model_loaded
    /\ ml_model = NoModel
    /\ model_loads = 0

(***************************************************************************)
(* A search during retraining                                              *)
(***************************************************************************)
\* C29: a find_recipes_by_ingredients call that runs concurrently with
\* train_model never observes a partially rebuilt index: every entry it
\* iterates over has a vector, and that vector was produced by the
\* vectorizer the call used for the query.
C29_SearchSeesWholeIndex ==
    \A i \in 1..Len(finder.seen) :
        /\ finder.seen[i] # {}
        /\ finder.seen[i] = finder.query

====================================================================
